---- MODULE Spec2Model ----
(***************************************************************************)
(* A model of the resilience and repair layer of mock_interview_ai:        *)
(*   - run_genai_with_rotation (phase3_backend_question_gen/ai_utils.py):  *)
(*     the credential x model rotation, one step per external call;        *)
(*   - QuestionGenerator._enforce_interview_structure                      *)
(*     (phase3_backend_question_gen/question_generator.py): the repair of  *)
(*     a question sequence, as an operator computed the way the code does. *)
(*   - get_fallback_questions (phase3_backend_question_gen/                *)
(*     question_bank.py): the static question bank;                        *)
(*   - the features that call the rotation, one step per call:             *)
(*     generate_questions, AnswerEvaluator.evaluate                        *)
(*     (phase4_answer_evaluation/evaluator.py) and parse_resume with its   *)
(*     keyword fallback (phase2_resume_extraction/resume_parser.py).       *)
(* Python indexes from 0 and TLA+ sequences from 1: key_index and          *)
(* model_index keep the code's 0-based values, and keys[key_index + 1] is  *)
(* the code's keys[key_index].                                             *)
(***************************************************************************)
EXTENDS Integers, Sequences, FiniteSets, TLC

(***************************************************************************)
(* Bounds of the model.                                                    *)
(***************************************************************************)
MaxKeys == 2
MaxModels == 2
MaxCand == 3
MaxN == 5
MaxFallbackN == 23
MaxLines == 11
MaxCalls == 2
MaxHeapN == 13
MaxHeapCand == 2

VARIABLES
    \* ---- run_genai_with_rotation: arguments and locals
    pc,                  \* position in run_genai_with_rotation
    keys,                \* get_api_keys()
    custom_models,       \* <<>> stands for None (and for an empty list)
    models_to_try,       \* custom_models or CANDIDATE_MODELS
    multimodal_filepath, \* "" stands for None / no artifact path
    key_index,
    model_index,
    multimodal_file,     \* 0 stands for None, h > 0 for an uploaded file handle
    last_error,
    result,              \* the text returned (pc = "returned")
    raised,              \* the error raised (pc = "raised")
    \* ---- run_genai_with_rotation: history of the external calls made
    attempts,            \* generate_content calls, in order
    sleeps,              \* number of time.sleep(1) calls
    uploads,             \* key_index of every genai.upload_file call, in order
    uploaded,            \* handles of the uploads that succeeded
    releases,            \* handle of every genai.delete_file call, in order
    quotaKeys,           \* key_index of every generation that failed with Quota
    prev,                \* the last external call made
    succ,                \* the first generation that returned a non-empty text
    recorded,            \* the last failed generation or non-Quota upload failure
    \* ---- _enforce_interview_structure: arguments and return value
    epc,
    questions,
    role,
    num_questions,
    script,
    script2,             \* the enforcer's return value on its own output
    \* ---- get_fallback_questions: arguments and return value
    fpc,
    resume_text,         \* a sequence of characters
    fb_role,
    fb_num_questions,
    fallback,
    \* ---- the features that call the rotation: generate_questions, evaluate,
    \* ---- parse_resume (and _fallback_keyword_extraction on its own)
    feature,             \* the function called
    cpc,                 \* "called", then "returned" or "raised"
    request,             \* its arguments
    outcome,             \* what its call of run_genai_with_rotation did
    value,               \* the value returned (cpc = "returned")
    failure,             \* the error raised to the caller (cpc = "raised")
    tiers,               \* the tiers entered, in order
    \* ---- two calls of run_genai_with_rotation that run in one process
    calls,               \* the locals of each call
    genai_api_key,       \* the key genai.configure set last (0: none yet)
    \* ---- the question dicts as objects: get_fallback_questions called several
    \* ---- times in one process, or the enforcer called on a parsed response
    heap,                \* the dicts that exist; a reference is an index of heap
    hpc,
    hargs,               \* the arguments that stay the same
    emitted,             \* the list returned by each call, as references
    snapshots            \* the value of each list when it was returned

rotVars == <<pc, keys, custom_models, models_to_try, multimodal_filepath, key_index, model_index,
             multimodal_file, last_error, result, raised, attempts, sleeps, uploads,
             uploaded, releases, quotaKeys, prev, succ, recorded>>
enfVars == <<epc, questions, role, num_questions, script, script2>>
bankVars == <<fpc, resume_text, fb_role, fb_num_questions, fallback>>
callVars == <<feature, cpc, request, outcome, value, failure, tiers>>
concVars == <<calls, genai_api_key>>
heapVars == <<heap, hpc, hargs, emitted, snapshots>>
vars == <<rotVars, enfVars, bankVars, callVars, concVars, heapVars>>
\* What an action of one program leaves alone: the variables of the others
notRotVars == <<enfVars, bankVars, callVars, concVars, heapVars>>
notEnfVars == <<rotVars, bankVars, callVars, concVars, heapVars>>
notBankVars == <<rotVars, enfVars, callVars, concVars, heapVars>>
notCallVars == <<rotVars, enfVars, bankVars, concVars, heapVars>>
notConcVars == <<rotVars, enfVars, bankVars, callVars, heapVars>>
notHeapVars == <<rotVars, enfVars, bankVars, callVars, concVars>>

(***************************************************************************)
(* Helpers on sequences.                                                   *)
(***************************************************************************)
Range(s) == {s[i] : i \in DOMAIN s}
\* Python's "kw in text", on texts and keywords held as sequences of words
Contains(text, kw) ==
    \E i \in 1..(Len(text) - Len(kw) + 1) : SubSeq(text, i, i + Len(kw) - 1) = kw

(***************************************************************************)
(* ai_utils.py                                                             *)
(***************************************************************************)
CANDIDATE_MODELS ==
    <<"gemini-2.5-flash", "gemini-2.5-pro", "gemini-2.0-flash",
      "gemini-2.0-flash-lite", "gemini-flash-latest", "gemini-pro-latest">>

\* The errors of the generation service. signal is the machine-readable class of
\* the error; text is str(e), as a sequence of words. A quota error of the
\* service reads "429 ..." and a missing model "404 ..."; any other error may
\* carry any text, among them one that holds the characters 429 (a path, a
\* request id).
ErrorKinds ==
    { [signal |-> "Quota", text |-> <<"429", "quota exceeded">>],
      [signal |-> "ModelUnavailable", text |-> <<"404", "model not found">>],
      [signal |-> "Transient", text |-> <<"500", "internal error">>],
      [signal |-> "Transient", text |-> <<"400", "cannot read", "429">>] }

\* An error raised by the call made at (key, model); model = -1 is the upload
ErrorAt(kind, k, m) ==
    [signal |-> kind.signal, text |-> kind.text, key |-> k, model |-> m]

NoError == [signal |-> "None", text |-> <<>>, key |-> -1, model |-> -1]
ConfigMissing ==
    [signal |-> "ConfigurationMissing", text |-> <<"No GEMINI_API_KEY found in .env">>,
     key |-> -1, model |-> -1]
AllFailed ==
    [signal |-> "AllExhausted", text |-> <<"All API keys and models failed.">>,
     key |-> -1, model |-> -1]

\* response.text of a generation that raised nothing; "" is the empty response
Responses == {"", "text A", "text B"}

\* "429" in str(e)
Has429(e) == Contains(e.text, <<"429">>)

\* Mutation of UploadWanted: the upload is made whatever the path
UploadAlways(path) == TRUE
\* line 65: if multimodal_filepath
UploadWanted(path) == path # ""

\* Mutation of NeedsThrottle: the test forgets key_index
NeedsThrottleModelOnly(k, m) == m > 0
\* line 81: if key_index > 0 or model_index > 0
NeedsThrottle(k, m) == k > 0 \/ m > 0

\* Mutation of BreaksModelLoop: the break is missing
BreaksNever(e) == FALSE
\* line 104: if "429" in err_str: break
BreaksModelLoop(e) == Has429(e)

\* Mutation of CleanupWanted: the cleanup after the model loop is missing
CleanupNever(file) == FALSE
\* line 116: if multimodal_file (the cleanup after the model loop)
CleanupWanted(file) == file # 0

\* Mutation of IsSuccess: a non-empty text does not end the loops
IsSuccessNever(text) == FALSE
\* line 92: if response and response.text
IsSuccess(text) == text # ""

\* line 124: raise last_error or Exception("All API keys and models failed.")
FinalError(le) == IF le # NoError THEN le ELSE AllFailed

RotInit ==
    /\ pc = "start"
    /\ keys \in {[i \in 1..n |-> i] : n \in 0..MaxKeys}
    /\ custom_models \in {SubSeq(CANDIDATE_MODELS, 1, n) : n \in 0..MaxModels}
    /\ models_to_try = <<>>
    /\ multimodal_filepath \in {"", "resume.pdf"}
    /\ key_index = 0
    /\ model_index = 0
    /\ multimodal_file = 0
    /\ last_error = NoError
    /\ result = ""
    /\ raised = NoError
    /\ attempts = <<>>
    /\ sleeps = 0
    /\ uploads = <<>>
    /\ uploaded = {}
    /\ releases = <<>>
    /\ quotaKeys = {}
    /\ prev = "none"
    /\ succ = [done |-> FALSE, text |-> ""]
    /\ recorded = NoError

\* The history variables a step leaves alone
histUnchanged == UNCHANGED <<attempts, sleeps, uploads, uploaded, releases, quotaKeys,
                             prev, succ, recorded>>
inputsUnchanged == UNCHANGED <<keys, custom_models, multimodal_filepath>>

\* Mutation of NextKey: the raise of line 124 is missing, the call ends without
\* a text and without an error
NextKeyNoRaise(le) ==
    /\ last_error' = le
    /\ IF key_index + 1 < Len(keys)
       THEN /\ key_index' = key_index + 1
            /\ pc' = "configure"
            /\ raised' = raised
       ELSE /\ key_index' = key_index
            /\ pc' = "ended"
            /\ raised' = raised

\* lines 59 and 124: the next turn of the outer loop with last_error = le, or,
\* after the last key, the raise
NextKey(le) ==
    /\ last_error' = le
    /\ IF key_index + 1 < Len(keys)
       THEN /\ key_index' = key_index + 1
            /\ pc' = "configure"
            /\ raised' = raised
       ELSE /\ key_index' = key_index
            /\ pc' = "raised"
            /\ raised' = FinalError(le)

\* line 78: the next turn of the inner loop, or, after the last model, line 116
NextModel ==
    IF model_index + 1 < Len(models_to_try)
    THEN /\ model_index' = model_index + 1
         /\ pc' = "throttle"
    ELSE /\ model_index' = model_index
         /\ pc' = "cleanup"

\* lines 51-59
RotStart ==
    /\ pc = "start"
    /\ IF keys = <<>>
       THEN /\ pc' = "raised"
            /\ raised' = ConfigMissing
            /\ UNCHANGED models_to_try
       ELSE /\ pc' = "configure"
            /\ raised' = raised
            /\ models_to_try' =
                   IF custom_models # <<>> THEN custom_models ELSE CANDIDATE_MODELS
    /\ inputsUnchanged
    /\ UNCHANGED notRotVars
    /\ histUnchanged
    /\ UNCHANGED <<key_index, model_index, multimodal_file, last_error, result>>

\* lines 60-65, and 120-122 when genai.configure raises
Configure ==
    /\ pc = "configure"
    /\ prev' = "configure"
    /\ \/ /\ multimodal_file' = 0
          /\ model_index' = 0
          /\ pc' = IF UploadWanted(multimodal_filepath) THEN "upload" ELSE "throttle"
          /\ UNCHANGED <<key_index, last_error, raised>>
       \/ /\ NextKey(last_error)
          /\ UNCHANGED <<multimodal_file, model_index>>
    /\ inputsUnchanged
    /\ UNCHANGED notRotVars
    /\ UNCHANGED <<models_to_try, result, attempts, sleeps, uploads, uploaded, releases,
                   quotaKeys, succ, recorded>>

\* lines 66-75
Upload ==
    /\ pc = "upload"
    /\ prev' = "upload"
    /\ uploads' = Append(uploads, key_index)
    /\ \/ /\ multimodal_file' = key_index + 1
          /\ uploaded' = uploaded \cup {key_index + 1}
          /\ pc' = "throttle"
          /\ UNCHANGED <<key_index, last_error, raised, recorded>>
       \/ \E kind \in ErrorKinds :
            LET upload_err == ErrorAt(kind, key_index, -1) IN
            /\ NextKey(IF Has429(upload_err) THEN last_error ELSE upload_err)
            /\ recorded' = IF kind.signal # "Quota" THEN upload_err ELSE recorded
            /\ UNCHANGED <<multimodal_file, uploaded>>
    /\ inputsUnchanged
    /\ UNCHANGED notRotVars
    /\ UNCHANGED <<models_to_try, model_index, result, attempts, sleeps, releases,
                   quotaKeys, succ>>

\* lines 80-82
Throttle ==
    /\ pc = "throttle"
    /\ IF NeedsThrottle(key_index, model_index)
       THEN /\ sleeps' = sleeps + 1
            /\ prev' = "sleep"
       ELSE UNCHANGED <<sleeps, prev>>
    /\ pc' = "generate"
    /\ inputsUnchanged
    /\ UNCHANGED notRotVars
    /\ UNCHANGED <<models_to_try, key_index, model_index, multimodal_file, last_error,
                   result, raised, attempts, uploads, uploaded, releases, quotaKeys,
                   succ, recorded>>

\* lines 84-113: one generate_content call and what follows from its outcome
Generate ==
    /\ pc = "generate"
    /\ prev' = "generate"
    /\ attempts' = Append(attempts,
                          [key |-> key_index, model |-> model_index,
                           slept |-> (prev = "sleep"), file |-> multimodal_file,
                           afterQuota |-> (key_index \in quotaKeys)])
    /\ \/ \E text \in Responses :
            /\ succ' = IF text # "" /\ ~succ.done
                       THEN [done |-> TRUE, text |-> text] ELSE succ
            /\ IF IsSuccess(text)
               THEN /\ result' = text
                    /\ pc' = IF multimodal_file # 0 THEN "release_success" ELSE "returned"
                    /\ UNCHANGED model_index
               ELSE /\ NextModel
                    /\ UNCHANGED result
            /\ UNCHANGED <<last_error, quotaKeys, recorded>>
       \/ \E kind \in ErrorKinds :
            LET e == ErrorAt(kind, key_index, model_index) IN
            /\ last_error' = e
            /\ recorded' = e
            /\ quotaKeys' = IF kind.signal = "Quota"
                            THEN quotaKeys \cup {key_index} ELSE quotaKeys
            /\ IF BreaksModelLoop(e)
               THEN /\ pc' = "cleanup"
                    /\ UNCHANGED model_index
               ELSE NextModel
            /\ UNCHANGED <<result, succ>>
    /\ inputsUnchanged
    /\ UNCHANGED notRotVars
    /\ UNCHANGED <<models_to_try, key_index, multimodal_file, raised, sleeps, uploads,
                   uploaded, releases>>

\* lines 94-97: delete_file after a success; its failure is swallowed
ReleaseOnSuccess ==
    /\ pc = "release_success"
    /\ prev' = "release"
    /\ \E ok \in BOOLEAN :
            releases' = Append(releases, [handle |-> multimodal_file, ok |-> ok])
    /\ pc' = "returned"
    /\ inputsUnchanged
    /\ UNCHANGED notRotVars
    /\ UNCHANGED <<models_to_try, key_index, model_index, multimodal_file, last_error,
                   result, raised, attempts, sleeps, uploads, uploaded, quotaKeys, succ,
                   recorded>>

\* lines 115-118, then the next key
Cleanup ==
    /\ pc = "cleanup"
    /\ IF CleanupWanted(multimodal_file)
       THEN /\ prev' = "release"
            /\ \E ok \in BOOLEAN :
                    releases' = Append(releases, [handle |-> multimodal_file, ok |-> ok])
       ELSE UNCHANGED <<prev, releases>>
    /\ NextKey(last_error)
    /\ inputsUnchanged
    /\ UNCHANGED notRotVars
    /\ UNCHANGED <<models_to_try, model_index, multimodal_file, result, attempts, sleeps,
                   uploads, uploaded, quotaKeys, succ, recorded>>

\* The rotation alone: the structure enforcer is not running
EnfIdle ==
    /\ epc = "idle"
    /\ questions = <<>>
    /\ role = <<>>
    /\ num_questions = 0
    /\ script = <<>>
    /\ script2 = <<>>

\* get_fallback_questions is not running
BankIdle ==
    /\ fpc = "idle"
    /\ resume_text = <<>>
    /\ fb_role = <<>>
    /\ fb_num_questions = 0
    /\ fallback = <<>>

\* No feature is running
CallIdle ==
    /\ feature = "none"
    /\ cpc = "idle"
    /\ request = <<>>
    /\ outcome = <<>>
    /\ value = <<>>
    /\ failure = NoError
    /\ tiers = <<>>

\* No pair of concurrent calls is running
ConcIdle ==
    /\ calls = <<>>
    /\ genai_api_key = 0

\* The question dicts are not followed as objects
HeapIdle ==
    /\ heap = <<>>
    /\ hpc = "idle"
    /\ hargs = <<>>
    /\ emitted = <<>>
    /\ snapshots = <<>>

RotNext ==
    \/ RotStart
    \/ Configure
    \/ Upload
    \/ Throttle
    \/ Generate
    \/ ReleaseOnSuccess
    \/ Cleanup

InitRotation == RotInit /\ EnfIdle /\ BankIdle /\ CallIdle /\ ConcIdle /\ HeapIdle

SpecRotation == InitRotation /\ [][RotNext]_vars

\* The rotation when every call it makes returns, with a result or an error:
\* genai.configure, upload_file, time.sleep, generate_content and delete_file
\* are the only places where a step waits, so a step that can be taken is taken
SpecRotationFair == InitRotation /\ [][RotNext]_vars /\ WF_vars(RotNext)

(***************************************************************************)
(* question_generator.py: QuestionGenerator._enforce_interview_structure   *)
(* A text is a sequence of words, and so is a keyword: text.lower() lowers *)
(* each word, and "keyword in text_lower" is Contains.                     *)
(***************************************************************************)
\* str.lower(), on the capitalised words of the texts of this model
LowerWord(w) ==
    CASE w = "Tell" -> "tell"
      [] w = "Why" -> "why"
      [] w = "To" -> "to"
      [] w = "Before" -> "before"
      [] w = "Could" -> "could"
      [] w = "Backend" -> "backend"
      [] w = "Engineer" -> "engineer"
      [] w = "Data" -> "data"
      [] w = "Scientist" -> "scientist"
      [] OTHER -> w
LowerText(text) == [i \in DOMAIN text |-> LowerWord(text[i])]

\* lines 135-136
intro_keywords ==
    { <<"tell", "me", "about", "yourself">>,
      <<"walk", "me", "through", "your", "background">>,
      <<"introduce", "yourself">>,
      <<"background">>,
      <<"what", "interested", "you">> }

\* lines 139-140
closing_keywords ==
    { <<"why", "hire", "you">>,
      <<"why", "should", "we", "hire">>,
      <<"what", "unique", "value">>,
      <<"great", "fit", "for", "this", "role">>,
      <<"wrap", "up">>,
      <<"any", "questions", "for">> }

\* lines 142-144
is_intro_question(q) ==
    \E keyword \in intro_keywords : Contains(LowerText(q.text), keyword)

\* lines 146-148
is_closing_question(q) ==
    \E keyword \in closing_keywords : Contains(LowerText(q.text), keyword)

\* A key the dict does not hold (initial_code is NotRequired)
Absent == "<absent>"
\* None, for intro_q and closing_q
NoQuestion ==
    [id |-> -1, text |-> <<>>, type |-> "", difficulty |-> "", context |-> <<>>,
     initial_code |-> Absent]

\* lines 183-190
DefaultIntro(r) ==
    [id |-> 1,
     text |-> <<"To", "get", "us", "started", "could", "you", "walk", "me", "through",
                "your", "background", "and", "what", "specifically", "interested",
                "you", "about", "this">> \o r \o <<"position">>,
     type |-> "behavioral",
     difficulty |-> "easy",
     context |-> <<"Opening question to establish rapport">>,
     initial_code |-> ""]

\* lines 195-202
DefaultClosing ==
    [id |-> 999,
     text |-> <<"Before", "we", "wrap", "up", "why", "do", "you", "think", "you'd",
                "be", "a", "great", "fit", "for", "this", "role", "and", "what",
                "unique", "value", "would", "you", "bring", "to", "our", "team">>,
     type |-> "behavioral",
     difficulty |-> "medium",
     context |-> <<"Closing question to assess self-awareness and fit">>,
     initial_code |-> ""]

\* lines 217-220
EmergencyQuestion ==
    [id |-> 0,
     text |-> <<"Could", "you", "walk", "me", "through", "a", "technical", "challenge",
                "you've", "faced">>,
     type |-> "technical",
     difficulty |-> "medium",
     context |-> <<"Emergency fallback">>,
     initial_code |-> Absent]

\* lines 160-161 and 239-240: for idx, q in enumerate(qs, start=1): q["id"] = idx
Renumber(qs) == [i \in DOMAIN qs |-> [qs[i] EXCEPT !.id = i]]

\* Python's s[:n], for n of either sign
SliceTo(s, n) ==
    IF n >= 0
    THEN SubSeq(s, 1, IF n < Len(s) THEN n ELSE Len(s))
    ELSE SubSeq(s, 1, IF Len(s) + n > 0 THEN Len(s) + n ELSE 0)

\* lines 168-179: the loop from questions[i] on, with the intro, the closing and
\* the middle questions found so far in acc
RECURSIVE Partition(_, _, _)
Partition(qs, i, acc) ==
    IF i > Len(qs) THEN acc
    ELSE LET q == qs[i] IN
         IF is_intro_question(q) /\ acc.intro_q = NoQuestion
         THEN Partition(qs, i + 1, [acc EXCEPT !.intro_q = q])
         ELSE IF is_closing_question(q) /\ acc.closing_q = NoQuestion
         THEN Partition(qs, i + 1, [acc EXCEPT !.closing_q = q])
         ELSE Partition(qs, i + 1,
                        [acc EXCEPT !.middle_questions = Append(@, q)])

\* lines 213-229: the while loop, from the state (middle_questions,
\* current_fill_idx)
RECURSIVE GapFill(_, _, _)
GapFill(middle_questions, current_fill_idx, target_middle_count) ==
    IF Len(middle_questions) >= target_middle_count THEN middle_questions
    ELSE IF middle_questions = <<>>
    THEN GapFill(<<EmergencyQuestion>>, current_fill_idx, target_middle_count)
    ELSE LET base_q == middle_questions[(current_fill_idx % Len(middle_questions)) + 1]
             new_q == [base_q EXCEPT
                          !.context = Append(@, " (Extended discussion)")]
         IN  GapFill(Append(middle_questions, new_q), current_fill_idx + 1,
                     target_middle_count)

\* Mutation of StructureIsValid: the shortcut for a valid structure is missing
StructureIsValidNever(qs) == FALSE
\* lines 150-159: first_is_intro and (len(questions) <= 2 or last_is_closing)
StructureIsValid(qs) ==
    /\ is_intro_question(qs[1])
    /\ \/ Len(qs) <= 2
       \/ (Len(qs) > 2 /\ is_closing_question(qs[Len(qs)]))

\* lines 165-243: the rebuild of a sequence whose structure is not valid
Rebuild(qs, r, n) ==
    LET parts == Partition(qs, 1, [intro_q |-> NoQuestion, closing_q |-> NoQuestion,
                                   middle_questions |-> <<>>])
        intro_q == IF parts.intro_q = NoQuestion THEN DefaultIntro(r) ELSE parts.intro_q
        closing_q == IF parts.closing_q = NoQuestion /\ n > 2
                     THEN DefaultClosing ELSE parts.closing_q
        target_middle_count == n - (IF closing_q # NoQuestion THEN 2 ELSE 1)
        middle_questions == GapFill(parts.middle_questions, 0, target_middle_count)
        final_questions ==
            IF closing_q # NoQuestion
            THEN <<intro_q>> \o SliceTo(middle_questions, target_middle_count)
                             \o <<closing_q>>
            ELSE <<intro_q>> \o SliceTo(middle_questions, target_middle_count)
    IN  SliceTo(Renumber(final_questions), n)

\* lines 124-243
enforce_interview_structure(qs, r, n) ==
    IF qs = <<>> THEN qs
    ELSE IF StructureIsValid(qs) THEN Renumber(qs)
    ELSE Rebuild(qs, r, n)

\* The candidate questions of the model: every text with every id of CandIds
CandTexts ==
    { <<"Tell", "me", "about", "yourself">>,
      <<"Why", "should", "we", "hire", "you">>,
      <<"explain", "closures">>,
      <<"describe", "rest">>,
      <<"your", "background", "before", "we", "wrap", "up">> }
CandIds == {1, 7}
Candidates ==
    { [id |-> i, text |-> t, type |-> "technical", difficulty |-> "hard",
       context |-> <<"asked by the generator">>, initial_code |-> ""] :
      i \in CandIds, t \in CandTexts }
Roles == { <<"Backend", "Engineer">>, <<"Data", "Scientist">> }

\* All sequences over S of length at most n
SeqsUpTo(S, n) == UNION {[1..k -> S] : k \in 0..n}

\* The structure enforcer alone: the rotation is not running
RotIdle ==
    /\ pc = "idle"
    /\ keys = <<>>
    /\ custom_models = <<>>
    /\ models_to_try = <<>>
    /\ multimodal_filepath = ""
    /\ key_index = 0
    /\ model_index = 0
    /\ multimodal_file = 0
    /\ last_error = NoError
    /\ result = ""
    /\ raised = NoError
    /\ attempts = <<>>
    /\ sleeps = 0
    /\ uploads = <<>>
    /\ uploaded = {}
    /\ releases = <<>>
    /\ quotaKeys = {}
    /\ prev = "none"
    /\ succ = [done |-> FALSE, text |-> ""]
    /\ recorded = NoError

EnfInit ==
    /\ epc = "called"
    /\ questions \in SeqsUpTo(Candidates, MaxCand)
    /\ role \in Roles
    /\ num_questions \in 1..MaxN
    /\ script = <<>>
    /\ script2 = <<>>

InitEnforce == RotIdle /\ EnfInit /\ BankIdle /\ CallIdle /\ ConcIdle /\ HeapIdle

\* One call of _enforce_interview_structure(questions, role, num_questions)
Enforce ==
    /\ epc = "called"
    /\ script' = enforce_interview_structure(questions, role, num_questions)
    /\ epc' = "returned"
    /\ UNCHANGED <<questions, role, num_questions, script2>>
    /\ UNCHANGED notEnfVars

\* A second call, on the sequence the first call returned
ReEnforce ==
    /\ epc = "returned"
    /\ script2' = enforce_interview_structure(script, role, num_questions)
    /\ epc' = "reapplied"
    /\ UNCHANGED <<questions, role, num_questions, script>>
    /\ UNCHANGED notEnfVars

EnfNext ==
    \/ Enforce
    \/ ReEnforce

SpecEnforce == InitEnforce /\ [][EnfNext]_vars

(***************************************************************************)
(* question_bank.py: QUESTION_BANK and get_fallback_questions              *)
(* The resume text and the skill names are sequences of characters; the    *)
(* questions are the records of the enforcer, their texts split into words.*)
(***************************************************************************)
Bank_python ==
    <<
      [id |-> 1001,
       text |->
         <<"For", "a", "start", "I", "see", "you've", "worked", "with", "Python", "If",
           "you", "were", "explaining", "the", "practical", "difference", "between",
           "a", "list", "and", "a", "tuple", "to", "a", "junior", "developer", "how",
           "would", "you", "describe", "when", "it's", "absolutely", "critical", "to",
           "use", "one", "over", "the", "other">>,
       type |-> "technical",
       difficulty |-> "easy",
       context |-> <<"Core Python proficiency with a conversational lens.">>,
       initial_code |-> ""],
      [id |-> 1002,
       text |->
         <<"I'm", "curious", "about", "your", "experience", "with", "advanced",
           "Python", "features", "How", "have", "you", "used", "decorators", "in",
           "your", "previous", "projects", "to", "clean", "up", "or", "extend", "your",
           "code's", "functionality">>,
       type |-> "technical",
       difficulty |-> "medium",
       context |-> <<"Advanced Python concepts in a practical context.">>,
       initial_code |-> ""],
      [id |-> 1003,
       text |->
         <<"Let's", "look", "at", "a", "quick", "coding", "scenario", "Could", "you",
           "write", "a", "short", "function", "for", "me", "that", "takes", "a",
           "string", "and", "returns", "it", "reversed", "For", "example", "hello",
           "becoming", "olleh">>,
       type |-> "coding",
       difficulty |-> "easy",
       context |-> <<"Basic algorithmic thinking.">>,
       initial_code |-> "def reverse_string(s):\n    # Your code here\n    pass"]
    >>

Bank_javascript ==
    <<
      [id |-> 2001,
       text |->
         <<"What", "is", "the", "difference", "between", "==", "and", "===", "in",
           "JavaScript">>,
       type |-> "technical",
       difficulty |-> "easy",
       context |-> <<"JS fundamentals.">>,
       initial_code |-> ""],
      [id |-> 2002,
       text |->
         <<"Explain", "the", "concept", "of", "closures", "in", "JavaScript", "with",
           "an", "example">>,
       type |-> "technical",
       difficulty |-> "medium",
       context |-> <<"Scope and memory management in JS.">>,
       initial_code |-> ""],
      [id |-> 2003,
       text |->
         <<"Write", "a", "function", "that", "filters", "an", "array", "of", "numbers",
           "to", "return", "only", "the", "even", "ones">>,
       type |-> "coding",
       difficulty |-> "easy",
       context |-> <<"Array manipulation in JS.">>,
       initial_code |-> "function filterEvens(arr) {\n    // Your code here\n}"]
    >>

Bank_react ==
    <<
      [id |-> 3001,
       text |->
         <<"What", "are", "React", "Hooks", "Explain", "useState", "and", "useEffect">>,
       type |-> "technical",
       difficulty |-> "easy",
       context |-> <<"Modern React development.">>,
       initial_code |-> ""],
      [id |-> 3002,
       text |->
         <<"What", "is", "the", "Virtual", "DOM", "and", "how", "does", "React", "use",
           "it", "to", "improve", "performance">>,
       type |-> "technical",
       difficulty |-> "medium",
       context |-> <<"React architecture.">>,
       initial_code |-> ""]
    >>

Bank_general_technical ==
    <<
      [id |-> 5001,
       text |->
         <<"Could", "you", "walk", "me", "through", "your", "debugging", "process",
           "For", "example", "when", "you", "hit", "a", "complex", "bug", "that",
           "isn't", "immediately", "obvious", "what", "steps", "do", "you", "take",
           "to", "isolate", "the", "root", "cause">>,
       type |-> "technical",
       difficulty |-> "medium",
       context |-> <<"Debugging and problem-solving methodology.">>,
       initial_code |-> ""],
      [id |-> 5002,
       text |->
         <<"How", "do", "you", "approach", "testing", "your", "code", "Do", "you",
           "lean", "more", "towards", "unit", "testing", "integration", "testing",
           "or", "a", "mix", "and", "why">>,
       type |-> "technical",
       difficulty |-> "easy",
       context |-> <<"Quality assurance mindset.">>,
       initial_code |-> ""],
      [id |-> 5003,
       text |->
         <<"When", "picking", "a", "new", "tool", "or", "library", "for", "a",
           "project", "what", "criteria", "do", "you", "look", "for", "to", "decide",
           "if", "it's", "the", "right", "choice">>,
       type |-> "technical",
       difficulty |-> "medium",
       context |-> <<"Tech stack decision making.">>,
       initial_code |-> ""]
    >>

Bank_general_behavioral ==
    <<
      [id |-> 4001,
       text |->
         <<"I'd", "love", "to", "hear", "about", "a", "project", "that", "really",
           "challenged", "you", "What", "was", "the", "biggest", "hurdle", "you",
           "hit", "and", "how", "did", "you", "navigate", "through", "it", "to", "get",
           "the", "results", "you", "wanted">>,
       type |-> "behavioral",
       difficulty |-> "medium",
       context |-> <<"Problem-solving and resilience.">>,
       initial_code |-> ""],
      [id |-> 4002,
       text |->
         <<"Thinking", "about", "your", "future", "where", "do", "you", "see", "your",
           "career", "heading", "in", "the", "next", "couple", "of", "years",
           "particularly", "in", "terms", "of", "the", "technical", "skills", "you",
           "want", "to", "master">>,
       type |-> "behavioral",
       difficulty |-> "easy",
       context |-> <<"Ambition and career alignment.">>,
       initial_code |-> ""],
      [id |-> 4003,
       text |->
         <<"We", "all", "hit", "points", "of", "friction", "in", "a", "team", "Could",
           "you", "share", "a", "time", "when", "you", "disagreed", "with", "a",
           "teammate", "How", "did", "you", "approach", "that", "conversation", "to",
           "find", "a", "path", "forward">>,
       type |-> "behavioral",
       difficulty |-> "easy",
       context |-> <<"Conflict resolution and teamwork.">>,
       initial_code |-> ""],
      [id |-> 4004,
       text |->
         <<"Can", "you", "describe", "a", "specific", "time", "you", "had", "to",
           "learn", "a", "new", "technology", "quickly", "to", "get", "a", "job",
           "done", "How", "did", "you", "go", "about", "it">>,
       type |-> "behavioral",
       difficulty |-> "medium",
       context |-> <<"Adaptability and learning agility.">>,
       initial_code |-> ""]
    >>

\* The keys of QUESTION_BANK, as sequences of characters
Skill_python ==
    <<"p", "y", "t", "h", "o", "n">>
Skill_javascript ==
    <<"j", "a", "v", "a", "s", "c", "r", "i", "p", "t">>
Skill_react ==
    <<"r", "e", "a", "c", "t">>
Skill_general_technical ==
    <<"g", "e", "n", "e", "r", "a", "l", "_", "t", "e", "c", "h", "n", "i", "c", "a",
      "l">>
Skill_general_behavioral ==
    <<"g", "e", "n", "e", "r", "a", "l", "_", "b", "e", "h", "a", "v", "i", "o", "r",
      "a", "l">>

\* lines 6-137, in the order of the dict
QUESTION_BANK ==
    << [skill |-> Skill_python, questions |-> Bank_python],
       [skill |-> Skill_javascript, questions |-> Bank_javascript],
       [skill |-> Skill_react, questions |-> Bank_react],
       [skill |-> Skill_general_technical, questions |-> Bank_general_technical],
       [skill |-> Skill_general_behavioral, questions |-> Bank_general_behavioral] >>

\* QUESTION_BANK.get(skill, [])
BankGet(skill) ==
    IF \E i \in DOMAIN QUESTION_BANK : QUESTION_BANK[i].skill = skill
    THEN QUESTION_BANK[CHOOSE i \in DOMAIN QUESTION_BANK :
                           QUESTION_BANK[i].skill = skill].questions
    ELSE <<>>

UpperCase ==
    <<"A", "B", "C", "D", "E", "F", "G", "H", "I", "J", "K", "L", "M", "N", "O", "P",
      "Q", "R", "S", "T", "U", "V", "W", "X", "Y", "Z">>
LowerCase ==
    <<"a", "b", "c", "d", "e", "f", "g", "h", "i", "j", "k", "l", "m", "n", "o", "p",
      "q", "r", "s", "t", "u", "v", "w", "x", "y", "z">>
\* str.lower(), character by character
LowerChar(c) ==
    IF \E i \in DOMAIN UpperCase : UpperCase[i] = c
    THEN LowerCase[CHOOSE i \in DOMAIN UpperCase : UpperCase[i] = c]
    ELSE c
Lower(s) == [i \in DOMAIN s |-> LowerChar(s[i])]

\* lines 147-154
intro_question(r) ==
    [id |-> 1,
     text |-> <<"To", "get", "us", "started", "could", "you", "walk", "me", "through",
                "your", "background", "and", "what", "specifically", "interested",
                "you", "about", "this">> \o r \o <<"position">>,
     type |-> "behavioral",
     difficulty |-> "easy",
     context |-> <<"Opening question to establish rapport">>,
     initial_code |-> ""]

\* lines 202-209
closing_question ==
    [id |-> 9999,
     text |-> <<"Before", "we", "wrap", "up", "why", "do", "you", "think", "you'd",
                "be", "a", "great", "fit", "for", "this", "role", "and", "what",
                "unique", "value", "would", "you", "bring", "to", "our", "team">>,
     type |-> "behavioral",
     difficulty |-> "medium",
     context |-> <<"Closing question to assess self-awareness and fit">>,
     initial_code |-> ""]

\* lines 157-162: the questions of every skill, other than the two general
\* ones, whose name is a substring of the lowered resume text, from
\* QUESTION_BANK[i] on
RECURSIVE MatchedQuestions(_, _)
MatchedQuestions(i, resume_lower) ==
    IF i > Len(QUESTION_BANK) THEN <<>>
    ELSE LET skill == QUESTION_BANK[i].skill
             matched == /\ skill \notin {Skill_general_behavioral, Skill_general_technical}
                        /\ Contains(resume_lower, skill)
         IN  (IF matched THEN QUESTION_BANK[i].questions ELSE <<>>)
                 \o MatchedQuestions(i + 1, resume_lower)

\* lines 144-181: middle_pool
MiddlePool(text) ==
    LET resume_lower == Lower(text)
        matched == MatchedQuestions(1, resume_lower)
        candidate_questions ==
            (IF matched = <<>> THEN BankGet(Skill_python) ELSE matched)
                \o BankGet(Skill_general_technical)
        behavioral_questions == BankGet(Skill_general_behavioral)
    IN  candidate_questions \o behavioral_questions

\* Mutation of CyclicFill: the loop never moves on from the first question of
\* the pool
CyclicFillFirstOnly(final_questions, middle_pool, current_idx, n) ==
    final_questions \o [i \in 1..(n - 1 - Len(final_questions)) |-> middle_pool[1]]
\* lines 184-198: the while loop, from the state (final_questions, current_idx)
RECURSIVE CyclicFill(_, _, _, _)
CyclicFill(final_questions, middle_pool, current_idx, n) ==
    IF ~(Len(final_questions) < n - 1) THEN final_questions
    ELSE IF middle_pool = <<>> THEN final_questions
    ELSE LET base_q == middle_pool[(current_idx % Len(middle_pool)) + 1]
             new_q == IF current_idx >= Len(middle_pool)
                      THEN [base_q EXCEPT
                               !.context = Append(@, " (Follow-up / Alternate angle)")]
                      ELSE base_q
         IN  CyclicFill(Append(final_questions, new_q), middle_pool, current_idx + 1, n)

\* Mutation of ClosingWanted: the closing question only from three questions on
ClosingWantedOverTwo(n) == n > 2
\* line 201: if num_questions > 1
ClosingWanted(n) == n > 1

\* lines 139-216
get_fallback_questions(text, r, n) ==
    LET filled == CyclicFill(<<intro_question(r)>>, MiddlePool(text), 0, n)
        final_questions == IF ClosingWanted(n)
                           THEN Append(filled, closing_question)
                           ELSE filled
    IN  SliceTo(Renumber(final_questions), n)

\* The resume texts of the model
Text_empty == <<>>
Text_react_docker ==
    <<"I", " ", "u", "s", "e", "d", " ", "R", "e", "a", "c", "t", " ", "a", "n", "d",
      " ", "D", "o", "c", "k", "e", "r">>
Text_java ==
    <<"J", "a", "v", "a", " ", "d", "e", "v", "e", "l", "o", "p", "e", "r">>
Text_python_javascript ==
    <<"P", "y", "t", "h", "o", "n", ",", " ", "J", "a", "v", "a", "S", "c", "r", "i",
      "p", "t">>
Text_all_skills ==
    <<"p", "y", "t", "h", "o", "n", " ", "j", "a", "v", "a", "s", "c", "r", "i", "p",
      "t", " ", "r", "e", "a", "c", "t">>
ResumeTexts ==
    {Text_empty, Text_react_docker, Text_java, Text_python_javascript, Text_all_skills}

BankInit ==
    /\ fpc = "called"
    /\ resume_text \in ResumeTexts
    /\ fb_role \in Roles
    /\ fb_num_questions \in 0..MaxFallbackN
    /\ fallback = <<>>

\* One call of get_fallback_questions(resume_text, role, num_questions)
Fallback ==
    /\ fpc = "called"
    /\ fallback' = get_fallback_questions(resume_text, fb_role, fb_num_questions)
    /\ fpc' = "returned"
    /\ UNCHANGED <<resume_text, fb_role, fb_num_questions>>
    /\ UNCHANGED notBankVars

\* One call of either builder of an interview script: the enforcer, or
\* get_fallback_questions
InitScripts ==
    \/ (RotIdle /\ EnfInit /\ BankIdle /\ CallIdle /\ ConcIdle /\ HeapIdle)
    \/ (RotIdle /\ EnfIdle /\ BankInit /\ CallIdle /\ ConcIdle /\ HeapIdle)

ScriptsNext ==
    \/ Enforce
    \/ ReEnforce
    \/ Fallback

SpecScripts == InitScripts /\ [][ScriptsNext]_vars

(***************************************************************************)
(* The features that call run_genai_with_rotation: evaluate,               *)
(* generate_questions and parse_resume.  Each makes at most one call; what *)
(* the call did is its outcome, the text returned or the error raised.     *)
(* The texts these functions look into are sequences of characters; a      *)
(* response of the service is a sequence of tokens, each a code fence, a   *)
(* white space or a body.                                                  *)
(***************************************************************************)
\* A service error whose message is longer than 100 characters
LongTransient ==
    [signal |-> "Transient",
     text |-> <<"503", "the model is overloaded",
                "please try again later or switch to another model of the same family",
                "request", "8841">>]
ServiceErrors == ErrorKinds \cup {LongTransient}

\* ai_utils.py lines 53 and 124: the errors run_genai_with_rotation raises
RotationErrors ==
    {ConfigMissing, AllFailed} \cup {ErrorAt(kind, 0, 0) : kind \in ServiceErrors}

\* The characters of a piece of an error message
CharsOf(w) ==
    CASE w = "429" -> <<"4", "2", "9">>
      [] w = "quota exceeded" -> <<"q", "u", "o", "t", "a", " ", "e", "x", "c", "e",
          "e", "d", "e", "d">>
      [] w = "404" -> <<"4", "0", "4">>
      [] w = "model not found" -> <<"m", "o", "d", "e", "l", " ", "n", "o", "t", " ",
          "f", "o", "u", "n", "d">>
      [] w = "500" -> <<"5", "0", "0">>
      [] w = "internal error" -> <<"i", "n", "t", "e", "r", "n", "a", "l", " ", "e",
          "r", "r", "o", "r">>
      [] w = "400" -> <<"4", "0", "0">>
      [] w = "cannot read" -> <<"c", "a", "n", "n", "o", "t", " ", "r", "e", "a", "d">>
      [] w = "503" -> <<"5", "0", "3">>
      [] w = "the model is overloaded" -> <<"t", "h", "e", " ", "m", "o", "d", "e",
          "l", " ", "i", "s", " ", "o", "v", "e", "r", "l", "o", "a", "d", "e", "d">>
      [] w = "please try again later or switch to another model of the same family" ->
             <<"p", "l", "e", "a", "s", "e", " ", "t", "r", "y", " ", "a", "g", "a",
               "i", "n", " ", "l", "a", "t", "e", "r", " ", "o", "r", " ", "s", "w",
               "i", "t", "c", "h", " ", "t", "o", " ", "a", "n", "o", "t", "h", "e",
               "r", " ", "m", "o", "d", "e", "l", " ", "o", "f", " ", "t", "h", "e",
               " ", "s", "a", "m", "e", " ", "f", "a", "m", "i", "l", "y">>
      [] w = "request" -> <<"r", "e", "q", "u", "e", "s", "t">>
      [] w = "8841" -> <<"8", "8", "4", "1">>
      [] w = "No GEMINI_API_KEY found in .env" -> <<"N", "o", " ", "G", "E", "M",
          "I", "N", "I", "_", "A", "P", "I", "_", "K", "E", "Y", " ", "f", "o", "u",
          "n", "d", " ", "i", "n", " ", ".", "e", "n", "v">>
      [] w = "All API keys and models failed." -> <<"A", "l", "l", " ", "A", "P",
          "I", " ", "k", "e", "y", "s", " ", "a", "n", "d", " ", "m", "o", "d", "e",
          "l", "s", " ", "f", "a", "i", "l", "e", "d", ".">>
      [] w = "Expecting value: line 1 column 1 (char 0)" ->
             <<"E", "x", "p", "e", "c", "t", "i", "n", "g", " ", "v", "a", "l", "u",
               "e", ":", " ", "l", "i", "n", "e", " ", "1", " ", "c", "o", "l", "u",
               "m", "n", " ", "1", " ", "(", "c", "h", "a", "r", " ", "0", ")">>
      [] w = "Unterminated string starting at: line 1 column 430 (char 429)" ->
             <<"U", "n", "t", "e", "r", "m", "i", "n", "a", "t", "e", "d", " ", "s",
               "t", "r", "i", "n", "g", " ", "s", "t", "a", "r", "t", "i", "n", "g",
               " ", "a", "t", ":", " ", "l", "i", "n", "e", " ", "1", " ", "c", "o",
               "l", "u", "m", "n", " ", "4", "3", "0", " ", "(", "c", "h", "a", "r",
               " ", "4", "2", "9", ")">>
      [] w = "'list' object has no attribute 'get'" ->
             <<"'", "l", "i", "s", "t", "'", " ", "o", "b", "j", "e", "c", "t", " ",
               "h", "a", "s", " ", "n", "o", " ", "a", "t", "t", "r", "i", "b", "u",
               "t", "e", " ", "'", "g", "e", "t", "'">>
      [] w = "1 validation error for EvaluationResult" ->
             <<"1", " ", "v", "a", "l", "i", "d", "a", "t", "i", "o", "n", " ", "e",
               "r", "r", "o", "r", " ", "f", "o", "r", " ", "E", "v", "a", "l", "u",
               "a", "t", "i", "o", "n", "R", "e", "s", "u", "l", "t">>
      [] w = "score" -> <<"s", "c", "o", "r", "e">>
      [] w = "Input should be a valid integer, unable to parse string as an integer" ->
             <<"I", "n", "p", "u", "t", " ", "s", "h", "o", "u", "l", "d", " ", "b",
               "e", " ", "a", " ", "v", "a", "l", "i", "d", " ", "i", "n", "t", "e",
               "g", "e", "r", ",", " ", "u", "n", "a", "b", "l", "e", " ", "t", "o",
               " ", "p", "a", "r", "s", "e", " ", "s", "t", "r", "i", "n", "g", " ",
               "a", "s", " ", "a", "n", " ", "i", "n", "t", "e", "g", "e", "r">>

\* str(e): the pieces of the message, one space between two
RECURSIVE Str(_)
Str(text) ==
    IF text = <<>> THEN <<>>
    ELSE IF Len(text) = 1 THEN CharsOf(text[1])
    ELSE CharsOf(text[1]) \o <<" ">> \o Str(Tail(text))

\* Mutation of Mentions429: no message is taken to hold 429
Mentions429Never(error_msg) == FALSE
\* "429" in error_msg
Mentions429(error_msg) == Contains(error_msg, <<"4", "2", "9">>)

Whitespace == {" ", "\n", "\t", "\r"}
\* str.strip()
RECURSIVE LStrip(_)
LStrip(s) == IF s # <<>> /\ Head(s) \in Whitespace THEN LStrip(Tail(s)) ELSE s
RECURSIVE RStrip(_)
RStrip(s) ==
    IF s # <<>> /\ s[Len(s)] \in Whitespace THEN RStrip(SubSeq(s, 1, Len(s) - 1)) ELSE s
Strip(s) == RStrip(LStrip(s))
\* str.startswith and str.endswith
StartsWith(s, prefix) == Len(s) >= Len(prefix) /\ SubSeq(s, 1, Len(prefix)) = prefix
EndsWith(s, suffix) ==
    Len(s) >= Len(suffix) /\ SubSeq(s, Len(s) - Len(suffix) + 1, Len(s)) = suffix
\* s[n:]
DropFirst(s, n) == SubSeq(s, n + 1, Len(s))

(***************************************************************************)
(* json.loads.  A JSON value carries its Python type in t: a dict is a     *)
(* record of values, a list a sequence of values, a str a sequence of      *)
(* characters.  The bodies of the model and their values are a table.      *)
(***************************************************************************)
JStr(chars) == [t |-> "str", v |-> chars]
JInt(n) == [t |-> "int", v |-> n]
JList(items) == [t |-> "list", v |-> items]
JDict(fields) == [t |-> "dict", v |-> fields]

J_eval7 == "{\"score\": 7, \"feedback\": \"good\", \"missing_keywords\": [\"jsx\"], \"improvements\": \"more\", \"ideal_answer\": \"a ui library\"}"
J_eval0 == "{\"score\": 0, \"feedback\": \"skipped\", \"missing_keywords\": [], \"improvements\": \"answer\", \"ideal_answer\": \"a ui library\"}"
J_empty_object == "{}"
J_empty_list == "[]"
J_bad_score == "{\"score\": \"high\", \"feedback\": \"good\"}"
\* an object cut off in the middle of a string that starts at character 429
J_cut_at_429 == "{\"score\": 7, \"feedback\": \"good ... (429 characters) ...\", \"ideal_answer\": \"a ui"

J_questions == "{\"questions\": [{\"id\": 2, \"text\": \"explain closures\", ...}, {\"id\": 1, \"text\": \"Tell me about yourself\", ...}]}"
J_question_list == "[{\"id\": 1, \"text\": \"describe rest\", ...}, {\"id\": 1, \"text\": \"explain closures\", ...}]"
J_questions_text == "{\"questions\": \"none\"}"
J_questions_empty == "{\"questions\": []}"
\* entries that lack the fields text and difficulty
J_questions_bare == "{\"questions\": [{\"id\": 1, \"type\": \"technical\", \"context\": \"bare\"}, {\"id\": 2, ...}]}"

J_profile == "{\"raw_text\": \"  Jane Doe, Java developer  \", \"skills\": [\"Java\"], \"experience\": [\"Acme Corp\"], \"projects\": []}"
J_profile_untidy == "{\"skills\": \"Java\", \"experience\": [{\"title\": \"\", \"role\": \"Engineer\"}, 5]}"

JsonBodies ==
    {J_eval7, J_eval0, J_empty_object, J_empty_list, J_bad_score, J_questions,
     J_question_list, J_questions_text, J_questions_empty, J_questions_bare,
     J_profile, J_profile_untidy}

\* A question of a response, with the fields the generator asks for
JQuestion(id, text) ==
    JDict([id |-> id, text |-> text, type |-> "technical", difficulty |-> "hard",
           context |-> <<"asked by the generator">>, initial_code |-> ""])

JsonValue(body) ==
    CASE body = J_eval7 ->
             JDict([score |-> JInt(7), feedback |-> JStr(<<"g", "o", "o", "d">>),
                    missing_keywords |-> JList(<<JStr(<<"j", "s", "x">>)>>),
                    improvements |-> JStr(<<"m", "o", "r", "e">>),
                    ideal_answer |-> JStr(<<"a", " ", "u", "i", " ", "l", "i", "b",
          "r", "a", "r", "y">>)])
      [] body = J_eval0 ->
             JDict([score |-> JInt(0), feedback |-> JStr(<<"s", "k", "i", "p", "p",
          "e", "d">>),
                    missing_keywords |-> JList(<<>>),
                    improvements |-> JStr(<<"a", "n", "s", "w", "e", "r">>),
                    ideal_answer |-> JStr(<<"a", " ", "u", "i", " ", "l", "i", "b",
          "r", "a", "r", "y">>)])
      [] body = J_empty_object -> [t |-> "dict", v |-> <<>>]
      [] body = J_empty_list -> JList(<<>>)
      [] body = J_bad_score ->
             JDict([score |-> JStr(<<"h", "i", "g", "h">>),
                    feedback |-> JStr(<<"g", "o", "o", "d">>)])
      [] body = J_questions ->
             JDict([questions |->
                        JList(<<JQuestion(2, <<"explain", "closures">>),
                                JQuestion(1, <<"Tell", "me", "about", "yourself">>)>>)])
      [] body = J_question_list ->
             JList(<<JQuestion(1, <<"describe", "rest">>),
                     JQuestion(1, <<"explain", "closures">>)>>)
      [] body = J_questions_text -> JDict([questions |-> JStr(<<"n", "o", "n", "e">>)])
      [] body = J_questions_empty -> JDict([questions |-> JList(<<>>)])
      [] body = J_questions_bare ->
             JDict([questions |->
                        JList(<<JDict([id |-> 1, type |-> "technical",
                                       context |-> <<"bare">>]),
                                JDict([id |-> 2, type |-> "technical",
                                       context |-> <<"bare">>])>>)])
      [] body = J_profile ->
             JDict([raw_text |-> JStr(<<" ", " ", "J", "a", "n", "e", " ", "D", "o",
          "e", ",", " ", "J", "a", "v", "a", " ", "d", "e", "v", "e", "l", "o", "p",
          "e", "r", " ", " ">>),
                    skills |-> JList(<<JStr(<<"J", "a", "v", "a">>)>>),
                    experience |-> JList(<<JStr(<<"A", "c", "m", "e", " ", "C", "o",
          "r", "p">>)>>),
                    projects |-> JList(<<>>)])
      [] body = J_profile_untidy ->
             JDict([skills |-> JStr(<<"J", "a", "v", "a">>),
                    experience |-> JList(<<JDict([title |-> JStr(<<>>),
                                                  role |-> JStr(<<"E", "n", "g", "i",
          "n", "e", "e", "r">>)]),
                                           JInt(5)>>)])

\* The errors raised while a response is turned into a value
JSONDecodeError(text) ==
    [signal |-> "Unparsable",
     text |-> IF text = <<J_cut_at_429>>
              THEN <<"Unterminated string starting at: line 1 column 430 (char 429)">>
              ELSE <<"Expecting value: line 1 column 1 (char 0)">>,
     key |-> -1, model |-> -1]
AttributeError ==
    [signal |-> "Unparsable", text |-> <<"'list' object has no attribute 'get'">>,
     key |-> -1, model |-> -1]
ValidationError ==
    [signal |-> "Unparsable",
     text |-> <<"1 validation error for EvaluationResult", "score",
                "Input should be a valid integer, unable to parse string as an integer">>,
     key |-> -1, model |-> -1]

\* json.loads(text): the value, or the error raised
JsonLoads(text) ==
    LET body == Strip(text)
    IN  IF Len(body) = 1 /\ body[1] \in JsonBodies
        THEN [ok |-> TRUE, value |-> JsonValue(body[1]), error |-> NoError]
        ELSE [ok |-> FALSE, value |-> <<>>, error |-> JSONDecodeError(body)]

\* data.get(key, default), on a dict
Get(data, key, default) == IF key \in DOMAIN data.v THEN data.v[key] ELSE default

\* The token that stands for the three backquotes of a code fence
Fence == "<fence>"
\* The responses of the service: response.text, never empty
ResponseTexts ==
    { <<J_eval7>>,
      <<Fence, "json", "\n", J_eval0, "\n", Fence, "\n">>,
      <<Fence, "\n", J_eval7, "\n", Fence>>,
      <<J_empty_object>>,
      <<J_empty_list>>,
      <<J_bad_score>>,
      <<J_cut_at_429>>,
      <<J_questions>>,
      <<J_question_list>>,
      <<J_questions_text>>,
      <<J_questions_empty>>,
      <<J_questions_bare>>,
      <<J_profile>>,
      <<J_profile_untidy>>,
      <<"Sorry, I cannot help with that.">> }

\* What a call of run_genai_with_rotation did
\* (prompt is what the feature sent)
NotCalled == [prompt |-> <<>>, kind |-> "none", text |-> <<>>, error |-> NoError]
RotationOutcomes ==
    {[prompt |-> <<>>, kind |-> "returned", text |-> text, error |-> NoError] :
         text \in ResponseTexts}
        \cup {[prompt |-> <<>>, kind |-> "raised", text |-> <<>>, error |-> e] :
                  e \in RotationErrors}

\* What a feature did: it returned a value or raised an error, after the
\* tiers it entered
Return(v, ts) == [kind |-> "returned", value |-> v, failure |-> NoError, tiers |-> ts]
Raise(e, ts) == [kind |-> "raised", value |-> <<>>, failure |-> e, tiers |-> ts]

(***************************************************************************)
(* evaluator.py: AnswerEvaluator.evaluate and _fallback_evaluate           *)
(***************************************************************************)
\* line 23
is_skipped(answer) ==
    \/ answer = <<>>
    \/ Strip(answer) = <<>>
    \/ Contains(Lower(answer), <<"n", "o", " ", "a", "n", "s", "w", "e", "r", " ",
          "p", "r", "o", "v", "i", "d", "e", "d">>)

\* lines 28-34: the parts of the prompt that depend on the answer
EvaluatePrompt(answer) ==
    [candidate_answer |-> IF is_skipped(answer)
                          THEN <<"N", "O", " ", "A", "N", "S", "W", "E", "R", " ",
          "P", "R", "O", "V", "I", "D", "E", "D", ".", " ", "C", "A", "N", "D", "I",
          "D", "A", "T", "E", " ", "S", "K", "I", "P", "P", "E", "D", ".">>
                          ELSE answer,
     score_rule |-> IF is_skipped(answer)
                    THEN "(MUST BE 0 since candidate skipped)"
                    ELSE "(Be fair and critical)"]

\* lines 82-85: the result when the error message holds 429 (the warning sign
\* that opens the feedback is left out)
RateLimitedResult ==
    [score |-> 0,
     feedback |-> <<"A", "P", "I", " ", "Q", "u", "o", "t", "a", " ", "L", "i", "m",
                    "i", "t", " ", "R", "e", "a", "c", "h", "e", "d", ".", " ", "A",
                    "I", " ", "e", "v", "a", "l", "u", "a", "t", "i", "o", "n", " ",
                    "i", "s", " ", "t", "e", "m", "p", "o", "r", "a", "r", "i", "l",
                    "y", " ", "p", "a", "u", "s", "e", "d", ".">>,
     missing_keywords |-> <<>>,
     improvements |->
         <<"P", "l", "e", "a", "s", "e", " ", "w", "a", "i", "t", " ", "a", " ", "f",
           "e", "w", " ", "m", "i", "n", "u", "t", "e", "s", " ", "o", "r", " ", "a",
           "d", "d", " ", "m", "o", "r", "e", " ", "A", "P", "I", " ", "k", "e", "y",
           "s", " ", "t", "o", " ", "t", "h", "e", " ", ".", "e", "n", "v", " ", "f",
           "i", "l", "e", ".">>,
     ideal_answer |->
         <<"G", "e", "n", "e", "r", "a", "t", "i", "v", "e", " ", "A", "I", " ", "i",
           "s", " ", "c", "u", "r", "r", "e", "n", "t", "l", "y", " ", "t", "a", "k",
           "i", "n", "g", " ", "a", " ", "s", "h", "o", "r", "t", " ", "b", "r", "e",
           "a", "k", " ", "t", "o", " ", "r", "e", "c", "h", "a", "r", "g", "e", " ",
           "u", "s", "a", "g", "e", " ", "l", "i", "m", "i", "t", "s", ".", " ", "P",
           "l", "e", "a", "s", "e", " ", "c", "h", "e", "c", "k", " ", "b", "a", "c",
           "k", " ", "i", "n", " ", "a", " ", "b", "i", "t", "!">>]

\* lines 86-89: the result for any other error message
UnavailableResult(error_msg) ==
    [score |-> 0,
     feedback |-> <<"E", "v", "a", "l", "u", "a", "t", "i", "o", "n", " ", "s", "e",
                    "r", "v", "i", "c", "e", " ", "u", "n", "a", "v", "a", "i", "l",
                    "a", "b", "l", "e", ".", " ", "E", "r", "r", "o", "r", ":", " ">>
                      \o SliceTo(error_msg, 100) \o <<".", ".", ".">>,
     missing_keywords |-> <<>>,
     improvements |-> <<"C", "h", "e", "c", "k", " ", "A", "P", "I", " ", "C", "o",
                        "n", "n", "e", "c", "t", "i", "o", "n", ".">>,
     ideal_answer |-> <<"N", "o", " ", "i", "d", "e", "a", "l", " ", "a", "n", "s",
                        "w", "e", "r", " ", "p", "r", "o", "v", "i", "d", "e", "d",
                        ".">>]

\* lines 78-97
fallback_evaluate(error_msg) ==
    IF Mentions429(error_msg) THEN RateLimitedResult ELSE UnavailableResult(error_msg)

\* lines 58-62: the cleanup of the response before json.loads
CleanResponse(response_text) ==
    LET t0 == Strip(response_text)
        t1 == IF StartsWith(t0, <<Fence, "json">>) THEN DropFirst(t0, 2) ELSE t0
        t2 == IF StartsWith(t1, <<Fence>>) THEN DropFirst(t1, 1) ELSE t1
        t3 == IF EndsWith(t2, <<Fence>>) THEN SubSeq(t2, 1, Len(t2) - 1) ELSE t2
    IN  Strip(t3)

\* lines 67-73: EvaluationResult(...) of a dict, which validates the types of
\* the fields (score: int, missing_keywords: List[str], the others str)
EvaluationResultOf(data) ==
    LET score == Get(data, "score", JInt(0))
        feedback == Get(data, "feedback", JStr(<<"N", "o", " ", "f", "e", "e", "d",
          "b", "a", "c", "k", " ", "p", "r", "o", "v", "i", "d", "e", "d", ".">>))
        missing_keywords == Get(data, "missing_keywords", JList(<<>>))
        improvements ==
            Get(data, "improvements", JStr(<<"N", "o", " ", "s", "p", "e", "c", "i",
          "f", "i", "c", " ", "i", "m", "p", "r", "o", "v", "e", "m", "e", "n", "t",
          "s", " ", "s", "u", "g", "g", "e", "s", "t", "e", "d", ".">>))
        ideal_answer == Get(data, "ideal_answer", JStr(<<"N", "o", " ", "i", "d",
          "e", "a", "l", " ", "a", "n", "s", "w", "e", "r", " ", "p", "r", "o", "v",
          "i", "d", "e", "d", ".">>))
        valid == /\ score.t = "int"
                 /\ feedback.t = "str"
                 /\ missing_keywords.t = "list"
                 /\ \A i \in DOMAIN missing_keywords.v : missing_keywords.v[i].t = "str"
                 /\ improvements.t = "str"
                 /\ ideal_answer.t = "str"
    IN  IF valid
        THEN [ok |-> TRUE,
              value |-> [score |-> score.v,
                         feedback |-> feedback.v,
                         missing_keywords |-> [i \in DOMAIN missing_keywords.v |->
                                                  missing_keywords.v[i].v],
                         improvements |-> improvements.v,
                         ideal_answer |-> ideal_answer.v],
              error |-> NoError]
        ELSE [ok |-> FALSE, value |-> <<>>, error |-> ValidationError]

\* lines 55-73: what the try block does with the outcome of the rotation: the
\* EvaluationResult it returns, or the error it raises
EvaluateTry(o) ==
    IF o.kind = "raised" THEN [ok |-> FALSE, value |-> <<>>, error |-> o.error]
    ELSE LET parsed == JsonLoads(CleanResponse(o.text))
         IN  IF ~parsed.ok THEN parsed
             ELSE IF parsed.value.t # "dict"
             THEN [ok |-> FALSE, value |-> <<>>, error |-> AttributeError]
             ELSE EvaluationResultOf(parsed.value)

\* lines 21-76
evaluate(answer, o) ==
    LET try == EvaluateTry(o)
    IN  IF try.ok
        THEN Return(try.value, <<"ai">>)
        ELSE Return(fallback_evaluate(Str(try.error.text)), <<"ai", "fallback">>)

\* The answers of the model
Answers ==
    { <<>>,
      <<" ", " ", "\n">>,
      <<"N", "o", " ", "A", "n", "s", "w", "e", "r", " ", "P", "r", "o", "v", "i",
        "d", "e", "d">>,
      <<"(", "n", "o", " ", "a", "n", "s", "w", "e", "r", " ", "p", "r", "o", "v",
        "i", "d", "e", "d", ")">>,
      <<"R", "e", "a", "c", "t", " ", "i", "s", " ", "a", " ", "U", "I", " ", "l",
        "i", "b", "r", "a", "r", "y">> }

EvaluateInit ==
    /\ feature = "evaluate"
    /\ cpc = "called"
    /\ request \in {[answer |-> a] : a \in Answers}
    /\ outcome = <<>>
    /\ value = <<>>
    /\ failure = NoError
    /\ tiers = <<>>

\* One call of evaluate(question, answer)
Evaluate ==
    /\ feature = "evaluate"
    /\ cpc = "called"
    /\ \E o \in RotationOutcomes :
          LET done == evaluate(request.answer, o)
          IN  /\ outcome' = [o EXCEPT !.prompt = EvaluatePrompt(request.answer)]
              /\ cpc' = done.kind
              /\ value' = done.value
              /\ failure' = done.failure
              /\ tiers' = done.tiers
    /\ UNCHANGED <<feature, request>>
    /\ UNCHANGED notCallVars

(***************************************************************************)
(* question_generator.py: QuestionGenerator.generate_questions             *)
(* A question of a response is a dict whose fields are held as the record  *)
(* the enforcer works on.                                                  *)
(***************************************************************************)
\* lines 113: questions.sort(key=lambda x: x.get("id", 0)), a stable sort
RECURSIVE InsertById(_, _)
InsertById(sorted, q) ==
    IF sorted = <<>> THEN <<q>>
    ELSE IF Head(sorted).id <= q.id
    THEN <<Head(sorted)>> \o InsertById(Tail(sorted), q)
    ELSE <<q>> \o sorted
RECURSIVE SortById(_)
SortById(qs) ==
    IF qs = <<>> THEN <<>>
    ELSE InsertById(SortById(SubSeq(qs, 1, Len(qs) - 1)), qs[Len(qs)])

\* A question dict of a response as the record the enforcer works on. A key the
\* dict lacks is held as Absent: q.get("text", "") then finds no keyword, and
\* the key stays absent in the script (the entries of the model all hold an id
\* and a context, the keys that lines 113 and 226 read)
QuestionRecord(d) ==
    [id |-> d.id,
     text |-> IF "text" \in DOMAIN d THEN d.text ELSE <<Absent>>,
     type |-> IF "type" \in DOMAIN d THEN d.type ELSE Absent,
     difficulty |-> IF "difficulty" \in DOMAIN d THEN d.difficulty ELSE Absent,
     context |-> d.context,
     initial_code |-> IF "initial_code" \in DOMAIN d THEN d.initial_code ELSE Absent]

\* lines 103-116: what the try block does with the outcome of the rotation:
\* the script it returns, or the error it raises
GenerateTry(r, n, o) ==
    IF o.kind = "raised" THEN [ok |-> FALSE, value |-> <<>>, error |-> o.error]
    ELSE LET parsed == JsonLoads(o.text)
         IN  IF ~parsed.ok THEN parsed
             ELSE LET data == parsed.value
                      found == IF data.t = "dict" /\ "questions" \in DOMAIN data.v
                               THEN data.v["questions"]
                               ELSE IF data.t = "list" THEN data
                               ELSE JList(<<>>)
                  IN  IF found.t # "list" \/ \E i \in DOMAIN found.v : found.v[i].t # "dict"
                      THEN [ok |-> FALSE, value |-> <<>>, error |-> AttributeError]
                      ELSE LET questions_ == [i \in DOMAIN found.v |-> QuestionRecord(found.v[i].v)]
                           IN  [ok |-> TRUE,
                                value |-> enforce_interview_structure(
                                              SortById(questions_), r, n),
                                error |-> NoError]

\* lines 24-122
generate_questions(text, r, n, o) ==
    LET try == GenerateTry(r, n, o)
    IN  IF try.ok
        THEN Return(try.value, <<"ai">>)
        ELSE Return(get_fallback_questions(text, r, n), <<"ai", "static bank">>)

GenerateInit ==
    /\ feature = "generate_questions"
    /\ cpc = "called"
    /\ request \in {[resume_text |-> t, role |-> r, num_questions |-> n] :
                       t \in {Text_java, Text_react_docker}, r \in Roles, n \in 1..MaxN}
    /\ outcome = <<>>
    /\ value = <<>>
    /\ failure = NoError
    /\ tiers = <<>>

\* One call of generate_questions(resume_text, role, num_questions)
GenerateQuestions ==
    /\ feature = "generate_questions"
    /\ cpc = "called"
    /\ \E o \in RotationOutcomes :
          LET done == generate_questions(request.resume_text, request.role,
                                         request.num_questions, o)
          IN  /\ outcome' = [o EXCEPT !.prompt = request]
              /\ cpc' = done.kind
              /\ value' = done.value
              /\ failure' = done.failure
              /\ tiers' = done.tiers
    /\ UNCHANGED <<feature, request>>
    /\ UNCHANGED notCallVars

(***************************************************************************)
(* resume_parser.py: _fallback_keyword_extraction                          *)
(***************************************************************************)
\* lines 50-55
tech_keywords ==
    << <<"p", "y", "t", "h", "o", "n">>, <<"j", "a", "v", "a", "s", "c", "r", "i",
          "p", "t">>, <<
          "r", "e", "a", "c", "t">>, <<
          "n", "e", "x", "t", ".", "j", "s">>, <<
          "n", "o", "d", "e", ".", "j", "s">>,
       <<"t", "y", "p", "e", "s", "c", "r", "i", "p", "t">>, <<"j", "a", "v", "a">>, <<
          "c", "+", "+">>, <<
          "a", "w", "s">>, <<
          "a", "z", "u", "r", "e">>, <<
          "d", "o", "c", "k", "e", "r">>,
       <<"k", "u", "b", "e", "r", "n", "e", "t", "e", "s">>, <<"s", "q", "l">>, <<
          "m", "o", "n", "g", "o", "d", "b">>, <<
          "p", "o", "s", "t", "g", "r", "e", "s", "q", "l">>, <<
          "g", "i", "t">>, <<
          "h", "t", "m", "l">>,
       <<"c", "s", "s">>, <<"t", "a", "i", "l", "w", "i", "n", "d">>, <<"f", "a",
          "s", "t", "a", "p", "i">>, <<
          "d", "j", "a", "n", "g", "o">>, <<
          "f", "l", "a", "s", "k">>, <<
          "s", "p", "r", "i", "n", "g">>,
       <<"a", "g", "i", "l", "e">>, <<"s", "c", "r", "u", "m">>, <<"m", "a", "c",
          "h", "i", "n", "e", " ", "l", "e", "a", "r", "n", "i", "n", "g">>, <<
          "d", "a", "t", "a", " ", "s", "c", "i", "e", "n", "c", "e">>, <<
          "d", "e", "v", "o", "p", "s">>,
       <<"c", "i", "/", "c", "d">>, <<"r", "e", "s", "t", " ", "a", "p", "i">>, <<
          "g", "r", "a", "p", "h", "q", "l">> >>

Digits == {"0", "1", "2", "3", "4", "5", "6", "7", "8", "9"}
Letters == Range(UpperCase) \cup Range(LowerCase)
\* \w of a regular expression
IsWordChar(c) == c \in Letters \cup Digits \cup {"_"}

\* str.upper(), character by character
UpperChar(c) ==
    IF \E i \in DOMAIN LowerCase : LowerCase[i] = c
    THEN UpperCase[CHOOSE i \in DOMAIN LowerCase : LowerCase[i] = c]
    ELSE c
\* str.title(): a letter that follows no letter is raised, any other lowered
Title(s) ==
    [i \in DOMAIN s |-> IF i = 1 \/ s[i - 1] \notin Letters
                        THEN UpperChar(s[i])
                        ELSE LowerChar(s[i])]

\* \b before text[i] (i = Len(text) + 1 is the end of the text): exactly one of
\* the characters on its two sides is a word character
WordBoundary(text, i) ==
    LET before == i > 1 /\ IsWordChar(text[i - 1])
        after == i <= Len(text) /\ IsWordChar(text[i])
    IN  before # after

\* line 58: re.search(rf"\b{re.escape(kw)}\b", text, re.IGNORECASE)
KeywordFound(text, kw) ==
    \E i \in 1..(Len(text) - Len(kw) + 1) :
        /\ Lower(SubSeq(text, i, i + Len(kw) - 1)) = kw
        /\ WordBoundary(text, i)
        /\ WordBoundary(text, i + Len(kw))

\* str.split("\n")
RECURSIVE SplitLines(_)
SplitLines(text) ==
    IF \A i \in DOMAIN text : text[i] # "\n" THEN <<text>>
    ELSE LET i == CHOOSE k \in DOMAIN text :
                      text[k] = "\n" /\ \A j \in 1..(k - 1) : text[j] # "\n"
         IN  <<SubSeq(text, 1, i - 1)>> \o SplitLines(SubSeq(text, i + 1, Len(text)))

\* lines 48-67: the dict returned
fallback_keyword_extraction(text) ==
    LET Found(kw) == KeywordFound(text, kw)
        found_skills == SelectSeq(tech_keywords, Found)
        IsLong(line) == Len(Strip(line)) > 50
        long_lines == SelectSeq(SplitLines(text), IsLong)
        found_exp == SliceTo([i \in DOMAIN long_lines |-> Strip(long_lines[i])], 10)
    IN  JDict([raw_text |-> JStr(text),
               skills |-> JList([i \in DOMAIN found_skills |->
                                    JStr(Title(found_skills[i]))]),
               experience |-> JList([i \in DOMAIN found_exp |-> JStr(found_exp[i])]),
               projects |-> JList(<<>>)])

\* A line of more than 50 characters, and n copies of it, one per line
LongLine ==
    <<" ", " ", "B", "u", "i", "l", "t", " ", "t", "h", "e", " ", "b", "i", "l", "l",
      "i", "n", "g", " ", "s", "e", "r", "v", "i", "c", "e", " ", "i", "n", " ", "P",
      "y", "t", "h", "o", "n", " ", "a", "n", "d", " ", "D", "j", "a", "n", "g", "o",
      " ", "f", "o", "r", " ", "A", "c", "m", "e", " ", "C", "o", "r", "p", " ", " ">>
RECURSIVE Lines(_)
Lines(n) == IF n = 0 THEN <<>> ELSE LongLine \o <<"\n">> \o Lines(n - 1)

\* The texts of the model for the keyword extraction alone
KeywordTexts ==
    { <<>>,
      <<"I", " ", "k", "n", "o", "w", " ", "C", "+", "+", " ", "a", "n", "d", " ",
        "J", "a", "v", "a">>,
      <<"j", "a", "v", "a", "s", "c", "r", "i", "p", "t">>,
      <<"c", "+", "+", "x", " ", "a", "n", "d", " ", "J", "A", "V", "A", "_", "8">>,
      <<"C", "I", "/", "C", "D", ",", " ", "R", "E", "S", "T", " ", "A", "P", "I",
        " ", "a", "n", "d", " ", "(", "R", "e", "a", "c", "t", ")", ";", " ", "m",
        "a", "c", "h", "i", "n", "e", " ", " ", "l", "e", "a", "r", "n", "i", "n", "g">>,
      <<"G", "i", "t", "H", "u", "b", ",", " ", "n", "e", "x", "t", ".", "j", "s",
        "\n", "N", "o", "d", "e", ".", "J", "S">>,
      <<"s", "q", "l", " ", "s", "q", "l", " ", "S", "Q", "L">>,
      Lines(2),
      Lines(MaxLines) \o <<"d", "o", "c", "k", "e", "r">> }

KeywordInit ==
    /\ feature = "_fallback_keyword_extraction"
    /\ cpc = "called"
    /\ request \in {[text |-> t] : t \in KeywordTexts}
    /\ outcome = NotCalled
    /\ value = <<>>
    /\ failure = NoError
    /\ tiers = <<>>

\* One call of _fallback_keyword_extraction(text)
KeywordExtraction ==
    /\ feature = "_fallback_keyword_extraction"
    /\ cpc = "called"
    /\ value' = fallback_keyword_extraction(request.text)
    /\ cpc' = "returned"
    /\ tiers' = <<"keyword">>
    /\ UNCHANGED <<feature, request, outcome, failure>>
    /\ UNCHANGED notCallVars

(***************************************************************************)
(* resume_parser.py: the extractors, parse_scanned_resume_multimodal,      *)
(* structure_resume_data and parse_resume.                                 *)
(* A file is its extension, its name, the texts of its parts (the pages of *)
(* a PDF, the paragraphs of a DOCX, the lines of a text file) and whether  *)
(* it can be opened; it holds what its extension says.                     *)
(***************************************************************************)
\* "\n".join(parts)
RECURSIVE JoinLines(_)
JoinLines(parts) ==
    IF parts = <<>> THEN <<>>
    ELSE IF Len(parts) = 1 THEN parts[1]
    ELSE parts[1] \o <<"\n">> \o JoinLines(Tail(parts))

\* lines 28-33: text += page.extract_text() + "\n", page after page
RECURSIVE PageTexts(_)
PageTexts(pages) ==
    IF pages = <<>> THEN <<>> ELSE Head(pages) \o <<"\n">> \o PageTexts(Tail(pages))

\* lines 24-38: PdfReader opens nothing but a readable PDF, and the text is empty
\* when it fails
extract_text_from_pdf(file) ==
    IF file.ext = ".pdf" /\ file.readable THEN PageTexts(file.parts) ELSE <<>>

UnreadableFile ==
    [signal |-> "UnreadableFile", text |-> <<"Package not found">>, key |-> -1, model |-> -1]

\* lines 145-152: the text of the file by its extension, or the error raised
NativeText(file) ==
    CASE file.ext = ".pdf" ->
             [ok |-> TRUE, text |-> extract_text_from_pdf(file), error |-> NoError]
      [] file.ext \in {".docx", ".txt"} ->
             IF file.readable
             THEN [ok |-> TRUE, text |-> JoinLines(file.parts), error |-> NoError]
             ELSE [ok |-> FALSE, text |-> <<>>, error |-> UnreadableFile]
      [] OTHER ->
             [ok |-> FALSE, text |-> <<>>,
              error |-> [signal |-> "UnsupportedFormat",
                         text |-> <<"U", "n", "s", "u", "p", "p", "o", "r", "t", "e",
          "d", " ", "f", "i", "l", "e", " ", "f", "o", "r", "m", "a", "t", ":", " ">> \o <<file.ext>>,
                         key |-> -1, model |-> -1]]

\* Mutation of TooShort: no text is too short
TooShortNever(extracted_text) == FALSE
\* line 156: if len(extracted_text) < 50
TooShort(extracted_text) == Len(extracted_text) < 50

\* The error of a response that json.loads refuses, or of the rotation
CallError(o) == IF o.kind = "raised" THEN o.error ELSE JsonLoads(o.text).error

\* lines 78-101: the value returned and the tiers entered
parse_scanned_resume_multimodal(file, o) ==
    IF o.kind = "returned" /\ JsonLoads(o.text).ok
    THEN [data |-> JsonLoads(o.text).value, tiers |-> <<"multimodal">>]
    ELSE LET err_msg == Str(CallError(o).text)
             text == extract_text_from_pdf(file)
         IN  IF Mentions429(err_msg) /\ Len(text) > 10
             THEN [data |-> fallback_keyword_extraction(text),
                   tiers |-> <<"multimodal", "keyword">>]
             ELSE [data |-> JDict([raw_text |-> JStr(<<"A", "I", "_", "E", "R", "R",
          "O", "R", ":", " ">> \o err_msg),
                                   skills |-> JList(<<>>),
                                   experience |-> JList(<<>>),
                                   projects |-> JList(<<>>)]),
                   tiers |-> <<"multimodal">>]

\* bool(x) of a JSON value
Truthy(x) ==
    CASE x.t = "int" -> x.v # 0
      [] x.t \in {"str", "list"} -> Len(x.v) > 0
      [] x.t = "dict" -> DOMAIN x.v # {}

\* str(n), for the small numbers of the model
IntStr(n) == <<CHOOSE d \in Digits : d = ToString(n)>>

\* lines 126-131: one item of a list, as a string (the items of the model are
\* strings, numbers and dicts that hold a name, a title, a role or a skill)
CleanItem(item) ==
    CASE item.t = "str" -> item.v
      [] item.t = "int" -> IntStr(item.v)
      [] item.t = "dict" ->
             LET keys_ == <<"name", "title", "role", "skill">>
                 held == SelectSeq(keys_, LAMBDA k : k \in DOMAIN item.v /\ Truthy(item.v[k]))
             IN  item.v[held[1]].v

\* lines 122-132: data.get(key, []) made a list of strings
CleanList(data, key) ==
    LET raw_items == Get(data, key, JList(<<>>))
        items == IF raw_items.t = "list" THEN raw_items.v
                 ELSE IF Truthy(raw_items) THEN <<raw_items>> ELSE <<>>
    IN  JList([i \in DOMAIN items |-> JStr(CleanItem(items[i]))])

EmptyProfile ==
    JDict([skills |-> JList(<<>>), experience |-> JList(<<>>), projects |-> JList(<<>>)])

\* lines 103-137: the dict returned and the tiers entered; any error of the try
\* block gives the empty profile
structure_resume_data(raw_text, o) ==
    IF o.kind = "returned" /\ JsonLoads(o.text).ok /\ JsonLoads(o.text).value.t = "dict"
    THEN LET data == JsonLoads(o.text).value
             cleaned == [key \in {"skills", "experience", "projects"} |->
                            CleanList(data, key)]
         IN  [data |-> JDict([key \in DOMAIN data.v \cup DOMAIN cleaned |->
                                 IF key \in DOMAIN cleaned THEN cleaned[key]
                                 ELSE data.v[key]]),
              tiers |-> <<"direct">>]
    ELSE [data |-> EmptyProfile, tiers |-> <<"direct", "empty profile">>]

\* A list of strings
IsStrList(x) == x.t = "list" /\ \A i \in DOMAIN x.v : x.v[i].t = "str"
Plain(list) == [i \in DOMAIN list.v |-> list.v[i].v]

ResumeValidationError ==
    [signal |-> "Unparsable",
     text |-> <<"1 validation error for ResumeData">>, key |-> -1, model |-> -1]

\* ResumeData(text=..., filename=..., file_type=..., skills=..., experience=...,
\* projects=...), which validates the types of the fields (lines 16-22)
ResumeDataOf(text, file, skills, experience, projects, ts) ==
    IF IsStrList(skills) /\ IsStrList(experience) /\ IsStrList(projects)
    THEN Return([text |-> text, filename |-> file.filename, file_type |-> file.ext,
                 skills |-> Plain(skills), experience |-> Plain(experience),
                 projects |-> Plain(projects)], ts)
    ELSE Raise(ResumeValidationError, ts)

\* str.replace(old, "")
RECURSIVE RemoveAll(_, _)
RemoveAll(s, old) ==
    IF ~Contains(s, old) THEN s
    ELSE LET At(i) == SubSeq(s, i, i + Len(old) - 1) = old
             first == CHOOSE i \in DOMAIN s : At(i) /\ \A j \in 1..(i - 1) : ~At(j)
         IN  SubSeq(s, 1, first - 1) \o RemoveAll(DropFirst(s, first + Len(old) - 1), old)

\* lines 176-183
PlaceholderProfile(file, ts) ==
    Return([text |-> <<"R", "e", "s", "u", "m", "e", " ", "u", "p", "l", "o", "a",
                       "d", "e", "d", " ", "(", "i", "m", "a", "g", "e", "-", "b",
                       "a", "s", "e", "d", ",", " ", "q", "u", "o", "t", "a", " ",
                       "e", "x", "h", "a", "u", "s", "t", "e", "d", ")">>,
            filename |-> file.filename, file_type |-> file.ext,
            skills |-> << <<"G", "e", "n", "e", "r", "a", "l", " ", "S", "o", "f",
                            "t", "w", "a", "r", "e", " ", "D", "e", "v", "e", "l",
                            "o", "p", "m", "e", "n", "t">> >>,
            experience |-> << <<"P", "r", "o", "f", "e", "s", "s", "i", "o", "n",
          "a", "l", " ", "E", "x", "p", "e", "r", "i", "e", "n", "c", "e">> >>,
            projects |-> <<>>], ts)

\* lines 157-189: the multimodal tier
MultimodalTier(file, o) ==
    LET scan == parse_scanned_resume_multimodal(file, o)
        data == scan.data
        ts == <<"native">> \o scan.tiers
    IN  IF data.t # "dict" \/ Get(data, "raw_text", JStr(<<>>)).t # "str"
        THEN Raise(AttributeError, ts)
        ELSE LET extracted_text == Strip(Get(data, "raw_text", JStr(<<>>)).v)
             IN  IF StartsWith(extracted_text, <<"A", "I", "_", "E", "R", "R", "O",
          "R", ":">>)
                 THEN LET error_msg == Strip(RemoveAll(extracted_text, <<"A", "I",
          "_", "E", "R", "R", "O", "R", ":">>))
                          text == extract_text_from_pdf(file)
                      IN  IF Mentions429(error_msg)
                          THEN IF Len(text) > 0
                               THEN LET fallback_data == fallback_keyword_extraction(text)
                                    IN  ResumeDataOf(fallback_data.v.raw_text.v, file,
                                                     fallback_data.v.skills,
                                                     fallback_data.v.experience,
                                                     fallback_data.v.projects,
                                                     Append(ts, "keyword"))
                               ELSE PlaceholderProfile(file, Append(ts, "placeholder"))
                          ELSE Raise([signal |-> "ScanFailed",
                                      text |-> <<"A", "I", " ", "S", "c", "a", "n",
          " ", "f", "a", "i", "l", "e", "d", ":", " ">> \o error_msg,
                                      key |-> -1, model |-> -1], ts)
                 ELSE ResumeDataOf(extracted_text, file,
                                   Get(data, "skills", JList(<<>>)),
                                   Get(data, "experience", JList(<<>>)),
                                   Get(data, "projects", JList(<<>>)), ts)

\* lines 191-201: the direct tier; structure_resume_data raises nothing, so the
\* handler of lines 193-196 is never entered
DirectTier(file, extracted_text, o) ==
    LET structured == structure_resume_data(extracted_text, o)
        structured_data == structured.data
    IN  ResumeDataOf(extracted_text, file,
                     Get(structured_data, "skills", JList(<<>>)),
                     Get(structured_data, "experience", JList(<<>>)),
                     Get(structured_data, "projects", JList(<<>>)),
                     <<"native">> \o structured.tiers)

\* lines 139-201
parse_resume(file, o) ==
    LET native == NativeText(file)
        extracted_text == Strip(native.text)
    IN  IF ~native.ok THEN Raise(native.error, <<"native">>)
        ELSE IF TooShort(extracted_text) THEN MultimodalTier(file, o)
        ELSE DirectTier(file, extracted_text, o)

\* parse_resume gets as far as its call of the rotation
CallsRotation(file) == NativeText(file).ok

\* What parse_resume sends to the rotation
ParsePrompt(file) ==
    IF TooShort(Strip(NativeText(file).text))
    THEN [multimodal_filepath |-> file.filename, raw_text |-> <<>>]
    ELSE [multimodal_filepath |-> "", raw_text |-> Strip(NativeText(file).text)]

\* The texts of the files of the model: of 69, 50, 49 and 19 characters
Text69 == <<"S", "e", "n", "i", "o", "r", " ", "J", "a", "v", "a", " ", "d", "e",
            "v", "e", "l", "o", "p", "e", "r", " ", "w", "i", "t", "h", " ", "C",
            "+", "+", ",", " ", "S", "Q", "L", " ", "a", "n", "d", " ", "R", "e",
            "a", "c", "t", " ", "e", "x", "p", "e", "r", "i", "e", "n", "c", "e",
            " ", "a", "t", " ", "A", "c", "m", "e", " ", "C", "o", "r", "p">>
Text50 == <<"P", "y", "t", "h", "o", "n", " ", "d", "e", "v", "e", "l", "o", "p",
            "e", "r", ",", " ", "5", " ", "y", "e", "a", "r", "s", " ", "o", "f",
            " ", "D", "j", "a", "n", "g", "o", " ", "a", "n", "d", " ", "P", "o",
            "s", "t", "g", "r", "e", "S", "Q", "L">>
Text49 == <<"P", "y", "t", "h", "o", "n", " ", "d", "e", "v", "e", "l", "o", "p",
            "e", "r", ",", " ", "5", " ", "y", "e", "a", "r", "s", " ", "o", "f",
            " ", "D", "j", "a", "n", "g", "o", " ", "a", "n", "d", " ", "P", "o",
            "s", "t", "g", "r", "e", "s", ".">>
Text19 == <<"I", " ", "k", "n", "o", "w", " ", "C", "+", "+", " ", "a", "n", "d",
            " ", "J", "a", "v", "a">>
Text9 == <<"J", "a", "v", "a", ",", " ", "S", "Q", "L">>

Files ==
    { [ext |-> ".pdf", filename |-> "long.pdf", parts |-> <<Text69>>, readable |-> TRUE],
      [ext |-> ".pdf", filename |-> "padded.pdf", parts |-> <<Text49, <<" ", " ">> >>,
       readable |-> TRUE],
      [ext |-> ".pdf", filename |-> "short.pdf", parts |-> <<Text19>>, readable |-> TRUE],
      [ext |-> ".pdf", filename |-> "tiny.pdf", parts |-> <<Text9>>, readable |-> TRUE],
      [ext |-> ".pdf", filename |-> "scan.pdf", parts |-> << <<>> >>, readable |-> TRUE],
      [ext |-> ".pdf", filename |-> "broken.pdf", parts |-> <<>>, readable |-> FALSE],
      [ext |-> ".docx", filename |-> "fifty.docx", parts |-> << <<" ">>, Text50, <<>> >>,
       readable |-> TRUE],
      [ext |-> ".docx", filename |-> "short.docx", parts |-> <<Text19>>,
       readable |-> TRUE],
      [ext |-> ".docx", filename |-> "broken.docx", parts |-> <<>>, readable |-> FALSE],
      [ext |-> ".txt", filename |-> "long.txt", parts |-> <<Text19, Text69>>,
       readable |-> TRUE],
      [ext |-> ".txt", filename |-> "short.txt", parts |-> <<Text19>>, readable |-> TRUE],
      [ext |-> ".txt", filename |-> "empty.txt", parts |-> <<>>, readable |-> TRUE],
      [ext |-> ".png", filename |-> "photo.png", parts |-> <<>>, readable |-> TRUE] }

ParseInit ==
    /\ feature = "parse_resume"
    /\ cpc = "called"
    /\ request \in {[file |-> f] : f \in Files}
    /\ outcome = <<>>
    /\ value = <<>>
    /\ failure = NoError
    /\ tiers = <<>>

\* One call of parse_resume(filepath)
ParseResume ==
    /\ feature = "parse_resume"
    /\ cpc = "called"
    /\ \E o \in IF CallsRotation(request.file) THEN RotationOutcomes ELSE {NotCalled} :
          LET done == parse_resume(request.file, o)
          IN  /\ outcome' = IF o = NotCalled THEN o
                            ELSE [o EXCEPT !.prompt = ParsePrompt(request.file)]
              /\ cpc' = done.kind
              /\ value' = done.value
              /\ failure' = done.failure
              /\ tiers' = done.tiers
    /\ UNCHANGED <<feature, request>>
    /\ UNCHANGED notCallVars

(***************************************************************************)
(* One call of one feature.                                                *)
(***************************************************************************)
CallInit ==
    \/ EvaluateInit
    \/ GenerateInit
    \/ ParseInit
    \/ KeywordInit

InitFeatures == RotIdle /\ EnfIdle /\ BankIdle /\ CallInit /\ ConcIdle /\ HeapIdle

FeaturesNext ==
    \/ Evaluate
    \/ GenerateQuestions
    \/ ParseResume
    \/ KeywordExtraction

SpecFeatures == InitFeatures /\ [][FeaturesNext]_vars

\* Every place where an error is classified: one call of the rotation, or one
\* call of a feature
InitClassification ==
    \/ (RotInit /\ EnfIdle /\ BankIdle /\ CallIdle /\ ConcIdle /\ HeapIdle)
    \/ (RotIdle /\ EnfIdle /\ BankIdle /\ CallInit /\ ConcIdle /\ HeapIdle)

ClassificationNext ==
    \/ RotStart
    \/ Configure
    \/ Upload
    \/ Throttle
    \/ Generate
    \/ ReleaseOnSuccess
    \/ Cleanup
    \/ Evaluate
    \/ GenerateQuestions
    \/ ParseResume
    \/ KeywordExtraction

SpecClassification == InitClassification /\ [][ClassificationNext]_vars

(***************************************************************************)
(* ai_utils.py: two calls of run_genai_with_rotation in one process.       *)
(* genai.configure(api_key=...) (line 61) returns nothing, and upload_file,*)
(* GenerativeModel(...).generate_content and delete_file (lines 68, 87-90, *)
(* 95, 117) are given no key: the key they work under is the one the       *)
(* module genai holds, genai_api_key, which every call of the process      *)
(* sets. A call is interleaved with the other one between its external     *)
(* calls (configure, upload, sleep, generate, delete).                     *)
(***************************************************************************)
CallIds == {1, 2}
\* get_api_keys() and CANDIDATE_MODELS, the lists both calls read
PoolKeys == [i \in 1..MaxKeys |-> i]
PoolModels == SubSeq(CANDIDATE_MODELS, 1, MaxModels)

\* The key a call selected last (line 59) and the key the external call it
\* made last worked under
NoUse == [op |-> "none", selected |-> 0, used |-> 0]
UseOf(call, op) ==
    [op |-> op, selected |-> PoolKeys[call.key_index + 1], used |-> genai_api_key]

\* The locals of a call at its start
NewCall(path) ==
    [pc |-> "configure", multimodal_filepath |-> path, key_index |-> 0,
     model_index |-> 0, multimodal_file |-> 0, last_error |-> NoError,
     result |-> "", raised |-> NoError, use |-> NoUse]

\* lines 59 and 124: the next turn of the outer loop with last_error = le, or,
\* after the last key, the raise
AtNextKey(call, le) ==
    IF call.key_index + 1 < Len(PoolKeys)
    THEN [call EXCEPT !.last_error = le, !.key_index = @ + 1, !.pc = "configure"]
    ELSE [call EXCEPT !.last_error = le, !.pc = "raised", !.raised = FinalError(le)]

\* line 78: the next turn of the inner loop, or, after the last model, line 116
AtNextModel(call) ==
    IF call.model_index + 1 < Len(PoolModels)
    THEN [call EXCEPT !.model_index = @ + 1, !.pc = "throttle"]
    ELSE [call EXCEPT !.pc = "cleanup"]

ConcInit ==
    /\ calls \in [CallIds -> {NewCall(path) : path \in {"", "resume.pdf"}}]
    /\ genai_api_key = 0

\* lines 60-65: genai.configure sets the key of the process; lines 120-122 when
\* it raises, having set the key or not
ConcConfigure(c) ==
    /\ calls[c].pc = "configure"
    /\ \/ /\ genai_api_key' = PoolKeys[calls[c].key_index + 1]
          /\ calls' = [calls EXCEPT ![c] =
                          [@ EXCEPT !.multimodal_file = 0, !.model_index = 0,
                                    !.pc = IF UploadWanted(calls[c].multimodal_filepath)
                                           THEN "upload" ELSE "throttle"]]
       \/ /\ genai_api_key' \in {genai_api_key, PoolKeys[calls[c].key_index + 1]}
          /\ calls' = [calls EXCEPT ![c] = AtNextKey(calls[c], calls[c].last_error)]
    /\ UNCHANGED notConcVars

\* lines 66-75: genai.upload_file works under the key of the process
ConcUpload(c) ==
    /\ calls[c].pc = "upload"
    /\ LET call == [calls[c] EXCEPT !.use = UseOf(calls[c], "upload")]
       IN  \/ calls' = [calls EXCEPT ![c] =
                           [call EXCEPT !.multimodal_file = call.key_index + 1,
                                        !.pc = "throttle"]]
           \/ \E kind \in ErrorKinds :
                 LET upload_err == ErrorAt(kind, call.key_index, -1)
                 IN  calls' = [calls EXCEPT ![c] =
                                  AtNextKey(call, IF Has429(upload_err)
                                                  THEN call.last_error ELSE upload_err)]
    /\ UNCHANGED genai_api_key
    /\ UNCHANGED notConcVars

\* lines 80-82: time.sleep(1), or nothing on the first attempt
ConcThrottle(c) ==
    /\ calls[c].pc = "throttle"
    /\ calls' = [calls EXCEPT ![c] = [@ EXCEPT !.pc = "generate"]]
    /\ UNCHANGED genai_api_key
    /\ UNCHANGED notConcVars

\* lines 84-113: generate_content works under the key of the process
ConcGenerate(c) ==
    /\ calls[c].pc = "generate"
    /\ LET call == [calls[c] EXCEPT !.use = UseOf(calls[c], "generate")]
       IN  \/ \E text \in Responses :
                 calls' = [calls EXCEPT ![c] =
                              IF IsSuccess(text)
                              THEN [call EXCEPT !.result = text,
                                                !.pc = IF call.multimodal_file # 0
                                                       THEN "release_success"
                                                       ELSE "returned"]
                              ELSE AtNextModel(call)]
           \/ \E kind \in ErrorKinds :
                 LET e == ErrorAt(kind, call.key_index, call.model_index)
                 IN  calls' = [calls EXCEPT ![c] =
                                  IF BreaksModelLoop(e)
                                  THEN [call EXCEPT !.last_error = e, !.pc = "cleanup"]
                                  ELSE AtNextModel([call EXCEPT !.last_error = e])]
    /\ UNCHANGED genai_api_key
    /\ UNCHANGED notConcVars

\* lines 94-97: delete_file after a success works under the key of the process
ConcReleaseOnSuccess(c) ==
    /\ calls[c].pc = "release_success"
    /\ calls' = [calls EXCEPT ![c] =
                    [@ EXCEPT !.use = UseOf(calls[c], "delete"), !.pc = "returned"]]
    /\ UNCHANGED genai_api_key
    /\ UNCHANGED notConcVars

\* lines 115-118, then the next key
ConcCleanup(c) ==
    /\ calls[c].pc = "cleanup"
    /\ calls' = [calls EXCEPT ![c] =
                    AtNextKey(IF CleanupWanted(calls[c].multimodal_file)
                              THEN [calls[c] EXCEPT !.use = UseOf(calls[c], "delete")]
                              ELSE calls[c],
                              calls[c].last_error)]
    /\ UNCHANGED genai_api_key
    /\ UNCHANGED notConcVars

InitConcurrent == RotIdle /\ EnfIdle /\ BankIdle /\ CallIdle /\ ConcInit /\ HeapIdle

ConfigureStep == \E c \in CallIds : ConcConfigure(c)
UploadStep == \E c \in CallIds : ConcUpload(c)
ThrottleStep == \E c \in CallIds : ConcThrottle(c)
GenerateStep == \E c \in CallIds : ConcGenerate(c)
ReleaseStep == \E c \in CallIds : ConcReleaseOnSuccess(c)
CleanupStep == \E c \in CallIds : ConcCleanup(c)

ConcurrentNext ==
    \/ ConfigureStep
    \/ UploadStep
    \/ ThrottleStep
    \/ GenerateStep
    \/ ReleaseStep
    \/ CleanupStep

SpecConcurrent == InitConcurrent /\ [][ConcurrentNext]_vars

(***************************************************************************)
(* question_bank.py and question_generator.py on objects: the dicts of     *)
(* QUESTION_BANK live as long as the process, and both builders of a       *)
(* script work on references: a list holds references, q["id"] = idx and   *)
(* new_q["context"] += ... change the dict referred to, and                *)
(* copy.deepcopy(base_q) makes a new dict. A reference is an index of the  *)
(* sequence of dicts, objects.                                             *)
(***************************************************************************)
\* Mutation of DeepCopy: the copy is missing, new_q = base_q
DeepCopyMissing(objects, ref) == [store |-> objects, ref |-> ref]
\* copy.deepcopy(base_q): a new dict with the fields of the dict ref refers to
\* (the values of the fields are strings and numbers)
DeepCopy(objects, ref) ==
    [store |-> Append(objects, objects[ref]), ref |-> Len(objects) + 1]

\* A dict display {...}: a new dict
NewDict(objects, q) == [store |-> Append(objects, q), ref |-> Len(objects) + 1]

\* The dicts a list of references refers to
Deref(objects, refs) == [i \in DOMAIN refs |-> objects[refs[i]]]

\* The dicts of QUESTION_BANK, in the order of the dict: they are the first
\* objects of the process
RECURSIVE BankObjectsFrom(_)
BankObjectsFrom(i) ==
    IF i > Len(QUESTION_BANK) THEN <<>>
    ELSE QUESTION_BANK[i].questions \o BankObjectsFrom(i + 1)
BankObjects == BankObjectsFrom(1)

\* QUESTION_BANK[i]["questions"] as references
BankRefs(i) ==
    LET offset == Len(BankObjects) - Len(BankObjectsFrom(i))
    IN  [j \in DOMAIN QUESTION_BANK[i].questions |-> offset + j]

\* QUESTION_BANK.get(skill, []) as references
BankGetRefs(skill) ==
    IF \E i \in DOMAIN QUESTION_BANK : QUESTION_BANK[i].skill = skill
    THEN BankRefs(CHOOSE i \in DOMAIN QUESTION_BANK : QUESTION_BANK[i].skill = skill)
    ELSE <<>>

\* lines 157-162, as references
RECURSIVE MatchedRefs(_, _)
MatchedRefs(i, resume_lower) ==
    IF i > Len(QUESTION_BANK) THEN <<>>
    ELSE LET skill == QUESTION_BANK[i].skill
             matched == /\ skill \notin {Skill_general_behavioral, Skill_general_technical}
                        /\ Contains(resume_lower, skill)
         IN  (IF matched THEN BankRefs(i) ELSE <<>>) \o MatchedRefs(i + 1, resume_lower)

\* lines 144-181: middle_pool, as references
MiddlePoolRefs(text) ==
    LET matched == MatchedRefs(1, Lower(text))
    IN  (IF matched = <<>> THEN BankGetRefs(Skill_python) ELSE matched)
            \o BankGetRefs(Skill_general_technical)
            \o BankGetRefs(Skill_general_behavioral)

\* lines 184-198: the while loop on objects
RECURSIVE CyclicFillRefs(_, _, _, _, _)
CyclicFillRefs(objects, final_questions, middle_pool, current_idx, n) ==
    IF ~(Len(final_questions) < n - 1) \/ middle_pool = <<>>
    THEN [store |-> objects, refs |-> final_questions]
    ELSE LET base_q == middle_pool[(current_idx % Len(middle_pool)) + 1]
             copy == DeepCopy(objects, base_q)
             new_q == copy.ref
             after == IF current_idx >= Len(middle_pool)
                      THEN [copy.store EXCEPT ![new_q].context =
                               Append(@, " (Follow-up / Alternate angle)")]
                      ELSE copy.store
         IN  CyclicFillRefs(after, Append(final_questions, new_q), middle_pool,
                            current_idx + 1, n)

\* for idx, q in enumerate(refs, start=1): q["id"] = idx, from idx on
RECURSIVE RenumberRefs(_, _, _)
RenumberRefs(objects, refs, idx) ==
    IF idx > Len(refs) THEN objects
    ELSE RenumberRefs([objects EXCEPT ![refs[idx]].id = idx], refs, idx + 1)

\* lines 139-216 on objects: the objects after the call and the list returned
get_fallback_questions_refs(objects, text, r, n) ==
    LET intro == NewDict(objects, intro_question(r))
        filled == CyclicFillRefs(intro.store, <<intro.ref>>, MiddlePoolRefs(text), 0, n)
        closing == NewDict(filled.store, closing_question)
        final == IF ClosingWanted(n)
                 THEN [store |-> closing.store, refs |-> Append(filled.refs, closing.ref)]
                 ELSE filled
    IN  [store |-> RenumberRefs(final.store, final.refs, 1),
         refs |-> SliceTo(final.refs, n)]

\* lines 168-179 on objects; 0 stands for None
RECURSIVE PartitionRefs(_, _, _, _)
PartitionRefs(objects, refs, i, acc) ==
    IF i > Len(refs) THEN acc
    ELSE LET q == objects[refs[i]] IN
         IF is_intro_question(q) /\ acc.intro_q = 0
         THEN PartitionRefs(objects, refs, i + 1, [acc EXCEPT !.intro_q = refs[i]])
         ELSE IF is_closing_question(q) /\ acc.closing_q = 0
         THEN PartitionRefs(objects, refs, i + 1, [acc EXCEPT !.closing_q = refs[i]])
         ELSE PartitionRefs(objects, refs, i + 1,
                            [acc EXCEPT !.middle_questions = Append(@, refs[i])])

\* lines 213-229 on objects
RECURSIVE GapFillRefs(_, _, _, _)
GapFillRefs(objects, middle_questions, current_fill_idx, target_middle_count) ==
    IF Len(middle_questions) >= target_middle_count
    THEN [store |-> objects, refs |-> middle_questions]
    ELSE IF middle_questions = <<>>
    THEN LET emergency == NewDict(objects, EmergencyQuestion)
         IN  GapFillRefs(emergency.store, <<emergency.ref>>, current_fill_idx,
                         target_middle_count)
    ELSE LET base_q == middle_questions[(current_fill_idx % Len(middle_questions)) + 1]
             copy == DeepCopy(objects, base_q)
             new_q == copy.ref
             after == [copy.store EXCEPT ![new_q].context =
                          Append(@, " (Extended discussion)")]
         IN  GapFillRefs(after, Append(middle_questions, new_q), current_fill_idx + 1,
                         target_middle_count)

\* lines 165-243 on objects
RebuildRefs(objects, refs, r, n) ==
    LET parts == PartitionRefs(objects, refs, 1,
                               [intro_q |-> 0, closing_q |-> 0, middle_questions |-> <<>>])
        intro == IF parts.intro_q = 0 THEN NewDict(objects, DefaultIntro(r))
                 ELSE [store |-> objects, ref |-> parts.intro_q]
        closing == IF parts.closing_q = 0 /\ n > 2
                   THEN NewDict(intro.store, DefaultClosing)
                   ELSE [store |-> intro.store, ref |-> parts.closing_q]
        target_middle_count == n - (IF closing.ref # 0 THEN 2 ELSE 1)
        filled == GapFillRefs(closing.store, parts.middle_questions, 0,
                              target_middle_count)
        final_questions ==
            IF closing.ref # 0
            THEN <<intro.ref>> \o SliceTo(filled.refs, target_middle_count)
                               \o <<closing.ref>>
            ELSE <<intro.ref>> \o SliceTo(filled.refs, target_middle_count)
    IN  [store |-> RenumberRefs(filled.store, final_questions, 1),
         refs |-> SliceTo(final_questions, n)]

\* lines 124-243 on objects
enforce_interview_structure_refs(objects, refs, r, n) ==
    IF refs = <<>> THEN [store |-> objects, refs |-> refs]
    ELSE IF StructureIsValid(Deref(objects, refs))
    THEN [store |-> RenumberRefs(objects, refs, 1), refs |-> refs]
    ELSE RebuildRefs(objects, refs, r, n)

\* A process that calls get_fallback_questions for one resume and role
HeapBankInit ==
    /\ hpc = "bank"
    /\ heap = BankObjects
    /\ hargs \in {[resume_text |-> t, role |-> r] : t \in ResumeTexts, r \in Roles}
    /\ emitted = <<>>
    /\ snapshots = <<>>

\* The enforcer about to be called on the questions of a parsed response, which
\* json.loads made as new dicts
HeapEnforceInit ==
    /\ hpc = "parsed"
    /\ \E qs \in SeqsUpTo(Candidates, MaxHeapCand) :
          /\ heap = BankObjects \o qs
          /\ hargs \in {[questions |-> [i \in DOMAIN qs |-> Len(BankObjects) + i],
                         role |-> r, num_questions |-> n] :
                            r \in Roles, n \in 0..MaxN}
    /\ emitted = <<>>
    /\ snapshots = <<>>

\* One more call of get_fallback_questions(resume_text, role, n)
FallbackCall ==
    /\ hpc = "bank"
    /\ Len(emitted) < MaxCalls
    /\ \E n \in 0..MaxHeapN :
          LET done == get_fallback_questions_refs(heap, hargs.resume_text, hargs.role, n)
          IN  /\ heap' = done.store
              /\ emitted' = Append(emitted, done.refs)
              /\ snapshots' = Append(snapshots, Deref(done.store, done.refs))
    /\ UNCHANGED <<hpc, hargs>>
    /\ UNCHANGED notHeapVars

\* The call of _enforce_interview_structure(questions, role, num_questions)
EnforceCall ==
    /\ hpc = "parsed"
    /\ LET done == enforce_interview_structure_refs(heap, hargs.questions, hargs.role,
                                                    hargs.num_questions)
       IN  /\ heap' = done.store
           /\ emitted' = Append(emitted, done.refs)
           /\ snapshots' = Append(snapshots, Deref(done.store, done.refs))
    /\ hpc' = "enforced"
    /\ UNCHANGED hargs
    /\ UNCHANGED notHeapVars

InitObjects ==
    \/ (RotIdle /\ EnfIdle /\ BankIdle /\ CallIdle /\ ConcIdle /\ HeapBankInit)
    \/ (RotIdle /\ EnfIdle /\ BankIdle /\ CallIdle /\ ConcIdle /\ HeapEnforceInit)

ObjectsNext ==
    \/ FallbackCall
    \/ EnforceCall

SpecObjects == InitObjects /\ [][ObjectsNext]_vars

(***************************************************************************)
(* Claims about run_genai_with_rotation, checked under SpecRotation.       *)
(***************************************************************************)
AttemptPairs == [i \in DOMAIN attempts |-> <<attempts[i].key, attempts[i].model>>]
ReleaseCount(h) == Cardinality({i \in DOMAIN releases : releases[i].handle = h})

\* C1: within one call no (credential, model) pair is attempted more than once,
\* and once a generation on credential k has failed with a Quota signal no
\* further model is attempted (or about to be attempted) on credential k.
C1_NoRepeatNoAttemptAfterQuota ==
    /\ \A i, j \in DOMAIN attempts : AttemptPairs[i] = AttemptPairs[j] => i = j
    /\ \A i \in DOMAIN attempts : ~attempts[i].afterQuota
    /\ pc \in {"throttle", "generate"} => key_index \notin quotaKeys

\* C1 witness: credential 0 failed with Quota while it had models left, and the
\* rotation has gone on to attempt a model on credential 1.
C1_Witness ==
    /\ 0 \in quotaKeys
    /\ Len(models_to_try) >= 2
    /\ AttemptPairs = <<(<<0, 0>>), (<<1, 0>>), (<<1, 1>>)>>

\* C2: once a generation attempt has returned a non-empty text the call is
\* returning exactly that text, and no further upload, throttle sleep or
\* generation attempt is made: only the release of the artifact may follow.
C2_SuccessShortCircuits ==
    /\ [](succ.done => (pc \in {"release_success", "returned"} /\ result = succ.text))
    /\ [](pc = "returned" => succ.done)
    /\ [][succ.done => (/\ attempts' = attempts
                        /\ sleeps' = sleeps
                        /\ uploads' = uploads
                        /\ pc' = "returned")]_vars

\* C2 witness: the call returned the text of a success on the first credential
\* and first model, after releasing the artifact, with a credential and a model
\* left untried.
C2_Witness ==
    /\ pc = "returned"
    /\ result = "text B"
    /\ AttemptPairs = <<(<<0, 0>>)>>
    /\ Len(keys) = 2
    /\ Len(models_to_try) = 2
    /\ Len(releases) = 1

\* C3: a throttle sleep immediately precedes every generation attempt except the
\* one on (first credential, first model), which has none; when the only attempt
\* on credential 0 fails with Quota and credential 1's first model succeeds, the
\* call returns that text after exactly one sleep.
C3_ThrottleBeforeEveryAttemptButFirst ==
    /\ \A i \in DOMAIN attempts :
           attempts[i].slept <=> ~(attempts[i].key = 0 /\ attempts[i].model = 0)
    /\ sleeps = Cardinality({i \in DOMAIN attempts : attempts[i].slept})
                + (IF pc = "generate" /\ prev = "sleep" THEN 1 ELSE 0)
    /\ (pc = "returned" /\ quotaKeys = {0} /\ AttemptPairs = <<(<<0, 0>>), (<<1, 0>>)>>)
          => (sleeps = 1 /\ attempts[2].slept /\ result = succ.text)

\* C3 witness: Quota on credential 0, then credential 1's first model succeeded
\* and the call returned.
C3_Witness ==
    /\ pc = "returned"
    /\ quotaKeys = {0}
    /\ AttemptPairs = <<(<<0, 0>>), (<<1, 0>>)>>
    /\ sleeps = 1

\* C4: every uploaded artifact has exactly one release attempt by the time the
\* rotation moves to the next credential, returns or fails, and never more than
\* one: a failed release is not retried and does not stop the call.
C4_ArtifactsReleasedOnce ==
    /\ \A i \in DOMAIN releases : releases[i].handle \in uploaded
    /\ \A h \in uploaded :
          /\ ReleaseCount(h) <= 1
          /\ (h # key_index + 1 \/ pc \in {"configure", "returned", "raised"})
                => ReleaseCount(h) = 1

\* C4 witness: two credentials each uploaded the artifact, one release failed,
\* a Quota failure cut one model loop short, and the call has failed.
C4_Witness ==
    /\ pc = "raised"
    /\ uploaded = {1, 2}
    /\ quotaKeys # {}
    /\ \E i \in DOMAIN releases : ~releases[i].ok

\* C5: the artifact is uploaded at most once per credential, the upload comes
\* before any model attempt on that credential (every attempt carries the file
\* uploaded under its own credential), and no upload is made without a path.
C5_UploadOncePerCredential ==
    /\ \A i, j \in DOMAIN uploads : uploads[i] = uploads[j] => i = j
    /\ multimodal_filepath = "" => (uploads = <<>> /\ uploaded = {})
    /\ pc = "upload" => \A i \in DOMAIN attempts : attempts[i].key # key_index
    /\ multimodal_filepath # "" =>
          \A i \in DOMAIN attempts :
              /\ attempts[i].key \in Range(uploads)
              /\ attempts[i].file = attempts[i].key + 1

\* C5 witness: both credentials uploaded once and every model was attempted on
\* both.
C5_Witness ==
    /\ uploads = <<0, 1>>
    /\ Len(attempts) = 4

\* C6: when every credential is exhausted the call fails with the most recent
\* error among the failed generation attempts and the non-Quota upload
\* failures, and with the generic all-exhausted error when there is none.
C6_FailsWithLastRecordedError ==
    (pc = "raised" /\ keys # <<>>)
        => raised = (IF recorded # NoError THEN recorded ELSE AllFailed)

(***************************************************************************)
(* Claims about _enforce_interview_structure, checked under SpecEnforce.   *)
(***************************************************************************)
ScriptIds == [i \in DOMAIN script |-> script[i].id]
\* q without its id, which the enforcer rewrites
Content(q) == [q EXCEPT !.id = 0]
\* The first candidate that matches an introduction pattern, if any
FirstIntroIndex(qs) ==
    CHOOSE i \in DOMAIN qs :
        /\ is_intro_question(qs[i])
        /\ \A j \in 1..(i - 1) : ~is_intro_question(qs[j])

\* C7: for every candidate list and every N >= 1 the returned sequence has
\* length exactly N.
C7_LengthIsN ==
    epc = "returned" => Len(script) = num_questions

\* C8: for every candidate list and every N > 1 the last entry of the returned
\* sequence matches a closing pattern.
C8_LastIsClosing ==
    (epc = "returned" /\ num_questions > 1)
        => (script # <<>> /\ is_closing_question(script[Len(script)]))

\* C9: for every candidate list and every N >= 1 the first entry of the returned
\* sequence matches an introduction pattern: it is the first candidate that
\* matches one, or else the default intro naming the role.
C9_FirstIsIntro ==
    epc = "returned" =>
        /\ script # <<>>
        /\ is_intro_question(script[1])
        /\ IF \E i \in DOMAIN questions : is_intro_question(questions[i])
           THEN Content(script[1]) = Content(questions[FirstIntroIndex(questions)])
           ELSE /\ Content(script[1]) = Content(DefaultIntro(role))
                /\ Contains(script[1].text, role)

\* C10: the ids of the returned sequence are exactly 1..N in sequence order.
C10_IdsAreOneToN ==
    epc = "returned" => ScriptIds = [i \in 1..num_questions |-> i]

\* A sequence that already has the structure of an InterviewScript of n entries
IsValidScript(qs, n) ==
    /\ Len(qs) = n
    /\ is_intro_question(qs[1])
    /\ Len(qs) > 2 => is_closing_question(qs[Len(qs)])

\* C11: the enforcer is idempotent: on a sequence that is already valid it
\* returns the same entries in the same order with the same content, changing
\* nothing but ids, and nothing at all when the ids are already 1..N; applied to
\* its own output it returns that output.
C11_Idempotent ==
    /\ (epc # "called" /\ IsValidScript(questions, num_questions)) =>
          /\ Len(script) = Len(questions)
          /\ \A i \in DOMAIN questions : Content(script[i]) = Content(questions[i])
          /\ (\A i \in DOMAIN questions : questions[i].id = i) => script = questions
    /\ epc = "reapplied" => script2 = script

\* C11 witness: a valid sequence of three, with ids that were not 1..3, went
\* through the enforcer twice.
C11_Witness ==
    /\ epc = "reapplied"
    /\ IsValidScript(questions, num_questions)
    /\ Len(questions) = 3
    /\ questions[3].id = 1
    /\ script2 = script
    /\ ScriptIds = <<1, 2, 3>>

\* The fields a clone shares with the question it was cloned from
SameQuestion(q, base_q) ==
    /\ q.text = base_q.text
    /\ q.type = base_q.type
    /\ q.difficulty = base_q.difficulty
    /\ q.initial_code = base_q.initial_code

\* The script qs is one opening question, then the source pool repeated in
\* order up to the target count, then the closing question if there is one
IsCyclicPadding(qs, pool, target, closing) ==
    /\ Len(qs) = 1 + target + (IF closing THEN 1 ELSE 0)
    /\ \A i \in 0..(target - 1) : SameQuestion(qs[i + 2], pool[(i % Len(pool)) + 1])

\* The middle questions the enforcer found in its input
EnforcerPool ==
    Partition(questions, 1, [intro_q |-> NoQuestion, closing_q |-> NoQuestion,
                             middle_questions |-> <<>>]).middle_questions

\* The enforcer rebuilt its input: it was neither empty nor already valid
Rebuilt == epc # "called" /\ questions # <<>> /\ ~StructureIsValid(questions)

\* C12: both cyclic-fill loops, given a non-empty source pool of length L and a
\* target count, produce a padded pool of exactly the target length whose entry
\* i (from 0) has the text, type, difficulty and initial_code of source[i mod L].
\* The padded pool is the part of the returned script after the intro question
\* and before the closing question.
C12_CyclicFill ==
    /\ Rebuilt =>
           LET parts == Partition(questions, 1,
                                  [intro_q |-> NoQuestion, closing_q |-> NoQuestion,
                                   middle_questions |-> <<>>])
               pool == parts.middle_questions
               \* the script ends with a closing question: one was found, or
               \* the default one is added from three questions on
               closes == parts.closing_q # NoQuestion \/ num_questions > 2
               target == num_questions - (IF closes THEN 2 ELSE 1)
           IN  (pool # <<>> /\ target >= 0) =>
                   IsCyclicPadding(script, pool, target, closes)
    /\ (fpc = "returned" /\ fb_num_questions >= 1) =>
           IsCyclicPadding(fallback, MiddlePool(resume_text),
                           IF fb_num_questions > 2 THEN fb_num_questions - 2 ELSE 0,
                           fb_num_questions > 1)

\* C12 witness of the enforcer's loop: a pool of one question padded to two
C12_Witness ==
    /\ Rebuilt
    /\ Len(EnforcerPool) = 1
    /\ num_questions = 4
    /\ Len(script) = 4
    /\ script[3].text = EnforcerPool[1].text
    /\ script[3].context # EnforcerPool[1].context

\* C13: for every resume text, role and N >= 1, get_fallback_questions returns
\* exactly N questions with ids 1..N in order; the first is the intro question
\* naming the role and, when N > 1, the last is the canonical closing question.
C13_FallbackShape ==
    (fpc = "returned" /\ fb_num_questions >= 1) =>
        /\ Len(fallback) = fb_num_questions
        /\ \A i \in DOMAIN fallback : fallback[i].id = i
        /\ Content(fallback[1]) = Content(intro_question(fb_role))
        /\ Contains(fallback[1].text, fb_role)
        /\ fb_num_questions > 1 =>
               Content(fallback[Len(fallback)]) = Content(closing_question)

\* C13 witness: a script of two questions, the intro and the closing one
C13_Witness ==
    /\ fpc = "returned"
    /\ fb_num_questions = 2
    /\ Len(fallback) = 2
    /\ fallback[2].id = 2
    /\ fallback[2].text = closing_question.text

(***************************************************************************)
(* Claims about evaluate, generate_questions, parse_resume and             *)
(* _fallback_keyword_extraction, checked under SpecFeatures.               *)
(***************************************************************************)
\* A feature that calls the rotation has made its call
Called(f) == feature = f /\ cpc # "called" /\ outcome # NotCalled

\* C14: when evaluate is called with a skipped answer (empty, white space only,
\* or holding the "no answer provided" marker) the EvaluationResult returned has
\* score 0, whatever score the service returned.
C14_SkippedScoresZero ==
    (Called("evaluate") /\ is_skipped(request.answer)) =>
        (cpc = "returned" /\ value.score = 0)

\* C15: whenever the rotation fails or the response cannot be parsed into an
\* evaluation, evaluate does not raise: it returns a result with score 0 and no
\* missing keywords, the rate-limited one when the failure is a Quota failure
\* and otherwise the generic one, which embeds at most the first 100 characters
\* of the error message.
C15_FallbackEvaluation ==
    (Called("evaluate") /\ ~EvaluateTry(outcome).ok) =>
        LET error == EvaluateTry(outcome).error
            error_msg == Str(error.text)
        IN  /\ cpc = "returned"
            /\ value.score = 0
            /\ value.missing_keywords = <<>>
            /\ IF error.signal = "Quota"
               THEN value = RateLimitedResult
               ELSE /\ value = UnavailableResult(error_msg)
                    /\ \E n \in 0..100 :
                          /\ n <= Len(error_msg)
                          /\ SubSeq(value.feedback, 40, Len(value.feedback) - 3)
                                 = SubSeq(error_msg, 1, n)

\* The stripped length of the text parse_resume extracted natively
NativeLength == Len(Strip(NativeText(request.file).text))

\* C16: parse_resume chooses its tier by the stripped length of the natively
\* extracted text: below 50 characters the multimodal call is made and the
\* direct structuring call never; from 50 on the direct structuring call is made
\* and the multimodal call never.
C16_TierByLength ==
    (feature = "parse_resume" /\ cpc # "called" /\ NativeText(request.file).ok) =>
        /\ outcome # NotCalled
        /\ IF NativeLength < 50
           THEN /\ "multimodal" \in Range(tiers) /\ "direct" \notin Range(tiers)
                /\ outcome.prompt.multimodal_filepath = request.file.filename
           ELSE /\ "direct" \in Range(tiers) /\ "multimodal" \notin Range(tiers)
                /\ outcome.prompt.multimodal_filepath = ""
                /\ outcome.prompt.raw_text = Strip(NativeText(request.file).text)

\* C16 witness: a PDF whose text has 53 characters, 49 when stripped, went to the
\* multimodal tier
C16_Witness ==
    /\ feature = "parse_resume"
    /\ cpc = "returned"
    /\ Len(NativeText(request.file).text) >= 50
    /\ NativeLength = 49
    /\ tiers = <<"native", "multimodal">>

\* The three features of the application
Features == {"generate_questions", "evaluate", "parse_resume"}

\* C17: a ConfigurationMissing failure is always fatal and surfaced to the
\* caller: when no credential is configured, generate_questions, evaluate and
\* parse_resume each fail with that error and apply no fallback tier.
C17_ConfigurationMissingIsFatal ==
    \A f \in Features :
        (Called(f) /\ outcome.kind = "raised" /\ outcome.error = ConfigMissing) =>
            (cpc = "raised" /\ failure = ConfigMissing)

\* The rotation failed with an error that is neither Quota nor a missing
\* configuration
TransientFailure ==
    /\ outcome.kind = "raised"
    /\ outcome.error.signal \notin {"Quota", "ConfigurationMissing"}

\* C18 as stated: a Transient failure at the generation call never fails the
\* request: each feature returns a value, and the only errors that reach a
\* caller are UnsupportedFormat and ConfigurationMissing.
C18_TransientNeverFails ==
    \A f \in Features :
        (Called(f) /\ TransientFailure) => cpc = "returned"

\* C18, amended: a Transient failure never fails generate_questions or evaluate,
\* nor parse_resume when the native text has 50 characters or more (the profile
\* returned then has no skills, experience or projects). In the multimodal tier
\* of parse_resume it is raised to the caller as the error "AI Scan failed: ..."
\* with the message of the failure, unless that message holds the characters 429,
\* in which case a profile is returned. No other error reaches a caller on such
\* a failure.
C18_TransientFailsOnlyTheScan ==
    /\ \A f \in {"generate_questions", "evaluate"} :
           (Called(f) /\ TransientFailure) => cpc = "returned"
    /\ (Called("parse_resume") /\ TransientFailure) =>
           LET error_msg == Str(outcome.error.text)
           IN  IF NativeLength >= 50
               THEN /\ cpc = "returned"
                    /\ value.skills = <<>>
                    /\ value.experience = <<>>
                    /\ value.projects = <<>>
               ELSE IF Contains(error_msg, <<"4", "2", "9">>)
               THEN cpc = "returned"
               ELSE /\ cpc = "raised"
                    /\ failure.signal = "ScanFailed"
                    /\ EndsWith(failure.text, error_msg)

\* C18 witness: the scan of a short PDF failed with the error 500 of the
\* service, and parse_resume raised "AI Scan failed: 500 internal error"
C18_Witness ==
    /\ Called("parse_resume")
    /\ TransientFailure
    /\ outcome.error.text = <<"500", "internal error">>
    /\ cpc = "raised"
    /\ failure.signal = "ScanFailed"
    /\ Len(failure.text) = 16 + 18

\* kw occurs in text as a whole word, whatever the case: the characters next to
\* the occurrence, if any, are not word characters
OccursAsWholeWord(text, kw) ==
    \E i \in 1..(Len(text) - Len(kw) + 1) :
        /\ Lower(SubSeq(text, i, i + Len(kw) - 1)) = kw
        /\ i > 1 => ~IsWordChar(text[i - 1])
        /\ i + Len(kw) <= Len(text) => ~IsWordChar(text[i + Len(kw)])

\* C19: the skills of _fallback_keyword_extraction are title-cased terms of the
\* vocabulary, each at most once and in the order of the vocabulary, and a term
\* is among them exactly when it occurs in the text as a whole word, whatever
\* the case.
C19_SkillsAreWholeWords ==
    (feature = "_fallback_keyword_extraction" /\ cpc = "returned") =>
        LET skills == Plain(value.v.skills)
            Reported(k) == \E i \in DOMAIN skills : skills[i] = Title(tech_keywords[k])
        IN  /\ \A i \in DOMAIN skills :
                   \E k \in DOMAIN tech_keywords : skills[i] = Title(tech_keywords[k])
            /\ \A i, j \in DOMAIN skills :
                   i < j => \E k, l \in DOMAIN tech_keywords :
                               /\ k < l
                               /\ skills[i] = Title(tech_keywords[k])
                               /\ skills[j] = Title(tech_keywords[l])
            /\ \A k \in DOMAIN tech_keywords :
                   Reported(k) <=> OccursAsWholeWord(request.text, tech_keywords[k])

\* C20: when the multimodal tier fails with a Quota signal the result is the
\* keyword-fallback profile of the text natively recovered from the file,
\* whatever its format, whenever that text is not empty, and the placeholder
\* profile only when it is empty.
C20_QuotaScanFallsBackOnNativeText ==
    (/\ Called("parse_resume")
     /\ "multimodal" \in Range(tiers)
     /\ outcome.kind = "raised"
     /\ outcome.error.signal = "Quota") =>
        LET text == NativeText(request.file).text
            profile == fallback_keyword_extraction(text).v
        IN  /\ cpc = "returned"
            /\ IF text # <<>>
               THEN /\ value.skills = Plain(profile.skills)
                    /\ value.experience = Plain(profile.experience)
                    /\ value.projects = <<>>
                    /\ "keyword" \in Range(tiers)
               ELSE value = PlaceholderProfile(request.file, tiers).value

\* C21: when the native text has 50 characters or more and the direct
\* structuring call fails with a Quota signal, parse_resume returns the
\* keyword-fallback skills and experience computed from the extracted text.
C21_QuotaDirectFallsBackOnKeywords ==
    (/\ Called("parse_resume")
     /\ NativeLength >= 50
     /\ outcome.kind = "raised"
     /\ outcome.error.signal = "Quota") =>
        LET profile == fallback_keyword_extraction(Strip(NativeText(request.file).text)).v
        IN  /\ cpc = "returned"
            /\ value.skills = Plain(profile.skills)
            /\ value.experience = Plain(profile.experience)

\* The multimodal call of parse_resume failed: the rotation raised, or the
\* response is not valid JSON
ScanFailure ==
    /\ Called("parse_resume")
    /\ "multimodal" \in Range(tiers)
    /\ \/ outcome.kind = "raised"
       \/ outcome.kind = "returned" /\ ~JsonLoads(outcome.text).ok

\* C22: when the multimodal tier of parse_resume fails with any signal other
\* than Quota (a response that is not valid JSON included), parse_resume raises
\* an error that carries the message of the failure; it returns neither a
\* keyword-fallback profile nor the placeholder profile.
C22_NonQuotaScanFailureIsFatal ==
    (ScanFailure /\ CallError(outcome).signal # "Quota") =>
        /\ cpc = "raised"
        /\ EndsWith(failure.text, Str(CallError(outcome).text))
        /\ "keyword" \notin Range(tiers)
        /\ "placeholder" \notin Range(tiers)

\* The response of the service to generate_questions has an invalid shape: it
\* is not JSON, or not an object that holds a list of questions, or the list is
\* empty, or an entry lacks one of the fields id, text, type, difficulty, context
InvalidShape(o) ==
    /\ o.kind = "returned"
    /\ LET parsed == JsonLoads(o.text)
           data == parsed.value
       IN  \/ ~parsed.ok
           \/ data.t # "dict"
           \/ "questions" \notin DOMAIN data.v
           \/ data.v["questions"].t # "list"
           \/ data.v["questions"].v = <<>>
           \/ \E i \in DOMAIN data.v["questions"].v :
                 LET q == data.v["questions"].v[i]
                 IN  \/ q.t # "dict"
                     \/ ~({"id", "text", "type", "difficulty", "context"}
                              \subseteq DOMAIN q.v)

\* C23: generate_questions never raises; on every failure of the rotation and
\* on every response of invalid shape it returns the script of the static
\* question bank, and its result always has exactly the requested number of
\* questions.
C23_FallsThroughToStaticBank ==
    Called("generate_questions") =>
        /\ cpc = "returned"
        /\ Len(value) = request.num_questions
        /\ (outcome.kind = "raised" \/ InvalidShape(outcome)) =>
               /\ "static bank" \in Range(tiers)
               /\ value = get_fallback_questions(request.resume_text, request.role,
                                                 request.num_questions)

(***************************************************************************)
(* Claims about the classification of errors, checked under                *)
(* SpecClassification.                                                     *)
(***************************************************************************)
\* A step of the rotation that handles an error without the Quota signal: a
\* failed generation before the last model of the key is followed by the next
\* model of the same key, and a failed upload becomes the recorded last error
RotationClassifiesBySignal ==
    /\ (/\ pc = "generate"
        /\ recorded' # recorded
        /\ recorded'.signal # "Quota"
        /\ model_index + 1 < Len(models_to_try)) =>
           (pc' = "throttle" /\ model_index' = model_index + 1 /\ key_index' = key_index)
    /\ (pc = "upload" /\ recorded' # recorded /\ recorded'.signal # "Quota") =>
           last_error' = recorded'

\* A feature that handled an error without the Quota signal: evaluate did not
\* return the rate-limited result, and the scan of parse_resume gave neither
\* the keyword-fallback profile nor the placeholder profile
FeaturesClassifyBySignal ==
    /\ (/\ Called("evaluate")
        /\ ~EvaluateTry(outcome).ok
        /\ EvaluateTry(outcome).error.signal # "Quota") =>
           value # RateLimitedResult
    /\ (ScanFailure /\ CallError(outcome).signal # "Quota") =>
           /\ "keyword" \notin Range(tiers)
           /\ "placeholder" \notin Range(tiers)

\* C24: the classification of an error depends only on its signal: an error
\* without the Quota signal is never treated as a Quota error by the rotation,
\* by the extraction chain or by the fallback of the evaluator, even when its
\* message holds the characters 429.
C24_ClassificationBySignal ==
    [](FeaturesClassifyBySignal) /\ [][RotationClassifiesBySignal]_vars

\* The attempts made so far are in strictly increasing lexicographic order of
\* (key, model), each one on the next model of the same key or on the first
\* model of a later key
AttemptsInOrder ==
    \A i \in 1..(Len(attempts) - 1) :
        LET a == attempts[i]
            b == attempts[i + 1]
        IN  \/ b.key = a.key /\ b.model = a.model + 1
            \/ b.key > a.key /\ b.model = 0

\* A generation step on (key_index, model_index), before the last model, that
\* neither succeeded nor failed with the Quota signal goes on to the next model
\* of the same key
NextModelUnlessQuota ==
    (/\ pc = "generate"
     /\ pc' \notin {"returned", "release_success"}
     /\ ~(recorded' # recorded /\ recorded'.signal = "Quota")
     /\ model_index + 1 < Len(models_to_try)) =>
        (pc' = "throttle" /\ key_index' = key_index /\ model_index' = model_index + 1)

\* C25: the generation attempts of one call are made in strictly increasing
\* lexicographic order of (credential, model); after a ModelUnavailable
\* failure, a Transient failure or an empty response on (k, m) the next
\* attempt is (k, m+1), and the rotation leaves credential k before its last
\* model only after a Quota failure or a success.
C25_AttemptOrder ==
    [](AttemptsInOrder) /\ [][NextModelUnlessQuota]_vars

\* The keys under which the upload was made and failed
FailedUploadKeys ==
    {uploads[i] : i \in {j \in DOMAIN uploads : uploads[j] + 1 \notin uploaded}}

\* No generation is attempted under a key whose upload failed
NoAttemptAfterFailedUpload ==
    \A i \in DOMAIN attempts : attempts[i].key \notin FailedUploadKeys

\* A failed upload under key_index: the rotation goes to the next key (or
\* raises, after the last key); an error with the Quota signal leaves
\* last_error as it was and any other error becomes last_error
UploadFailureStep ==
    (pc = "upload" /\ pc' # "throttle") =>
        /\ \/ pc' = "configure" /\ key_index' = key_index + 1
           \/ pc' = "raised" /\ key_index + 1 = Len(keys)
        /\ attempts' = attempts
        /\ IF recorded' # recorded
           THEN last_error' = recorded'
           ELSE last_error' = last_error

\* C26: when the upload fails under credential k, no model is attempted under
\* credential k and the rotation advances to credential k+1; an upload failure
\* with the Quota signal leaves the recorded last error unchanged, and any other
\* upload failure becomes the recorded last error.
C26_UploadFailure ==
    [](NoAttemptAfterFailedUpload) /\ [][UploadFailureStep]_vars

(***************************************************************************)
(* Claim about concurrent calls of run_genai_with_rotation, checked under  *)
(* SpecConcurrent.                                                         *)
(***************************************************************************)
\* C27: when two calls of run_genai_with_rotation run concurrently in one
\* process, every upload, generation and release of a call is made under the
\* credential that this call selected for it: no other call changes the
\* credential of a call between its selection and its use.
C27_OwnCredential ==
    \A c \in DOMAIN calls : calls[c].use.used = calls[c].use.selected

(***************************************************************************)
(* Claims about the contexts and the sources of the cyclic fills, checked  *)
(* under SpecScripts.                                                      *)
(***************************************************************************)
\* In the script qs, the entry i (from 0) of the padded pool has the context of
\* pool[i mod L], followed by exactly one suffix from index L on and by nothing
\* below L
IsSuffixedPadding(qs, pool, target, suffix) ==
    \A i \in 0..(target - 1) :
        (i + 2 <= Len(qs)) =>
            qs[i + 2].context =
                pool[(i % Len(pool)) + 1].context
                    \o (IF i >= Len(pool) THEN <<suffix>> ELSE <<>>)

\* C28: in both cyclic-fill loops every padded entry (index >= L, the length of
\* the source pool) has the context of source[i mod L] followed by exactly one
\* copy of the fill suffix, however many times the fill wraps around the pool,
\* and every entry below index L carries no suffix.
C28_OneSuffixPerPaddedEntry ==
    /\ Rebuilt =>
           LET parts == Partition(questions, 1,
                                  [intro_q |-> NoQuestion, closing_q |-> NoQuestion,
                                   middle_questions |-> <<>>])
               pool == parts.middle_questions
               closes == parts.closing_q # NoQuestion \/ num_questions > 2
               target == num_questions - (IF closes THEN 2 ELSE 1)
           IN  pool # <<>> =>
                   IsSuffixedPadding(script, pool, target, " (Extended discussion)")
    /\ (fpc = "returned" /\ fb_num_questions >= 1) =>
           IsSuffixedPadding(fallback, MiddlePool(resume_text), fb_num_questions - 2,
                             " (Follow-up / Alternate angle)")

(***************************************************************************)
(* Claims about the dicts of the scripts, checked under SpecObjects        *)
(***************************************************************************)
\* The dicts of QUESTION_BANK are as they were when the module was loaded
BankUnchanged == \A i \in DOMAIN BankObjects : heap[i] = BankObjects[i]

\* Every list returned so far still refers to the dicts it held on return
EarlierResultsUnchanged ==
    \A k \in DOMAIN emitted : Deref(heap, emitted[k]) = snapshots[k]

\* No two entries of the lists returned are the same dict, and none is a dict
\* of QUESTION_BANK
EmittedEntriesDistinct ==
    \A k, l \in DOMAIN emitted : \A i \in DOMAIN emitted[k], j \in DOMAIN emitted[l] :
        /\ emitted[k][i] \notin DOMAIN BankObjects
        /\ (emitted[k][i] = emitted[l][j] => (k = l /\ i = j))

\* A call leaves the dicts that exist alone: get_fallback_questions changes
\* none of them, _enforce_interview_structure changes at most the id
SourcesKept ==
    \A i \in DOMAIN heap :
        /\ [heap'[i] EXCEPT !.id = 0] = [heap[i] EXCEPT !.id = 0]
        /\ (hpc = "bank" => heap'[i] = heap[i])

\* C29: the clones of the cyclic fills are independent of their sources: after
\* any sequence of get_fallback_questions calls QUESTION_BANK is unchanged,
\* and renumbering or suffixing an emitted entry changes neither its source,
\* nor another emitted entry, nor the result of an earlier call.
C29_ClonesAreIndependent ==
    /\ [](BankUnchanged /\ EarlierResultsUnchanged /\ EmittedEntriesDistinct)
    /\ [][SourcesKept]_vars

\* Two calls of get_fallback_questions, the second with a suffixed clone of an
\* entry of the pool
C29_Witness ==
    /\ hpc = "bank"
    /\ Len(emitted) = 2
    /\ Len(emitted[1]) > 2
    /\ \E i \in DOMAIN emitted[2] :
          /\ Len(heap[emitted[2][i]].context) > 0
          /\ heap[emitted[2][i]].context[Len(heap[emitted[2][i]].context)] =
                 " (Follow-up / Alternate angle)"

(***************************************************************************)
(* Claims about the source pool of get_fallback_questions, checked under   *)
(* SpecScripts                                                             *)
(***************************************************************************)
Skill_docker ==
    <<"d", "o", "c", "k", "e", "r">>

\* The questions of the categories of a sequence of categories, in its order
RECURSIVE QuestionsOf(_)
QuestionsOf(categories) ==
    IF categories = <<>> THEN <<>>
    ELSE Head(categories).questions \o QuestionsOf(Tail(categories))

\* The pool as the claim states it
StatedPool(text) ==
    LET generic == {Skill_general_technical, Skill_general_behavioral}
        Matches(c) == c.skill \notin generic /\ Contains(Lower(text), c.skill)
        Named(skill) == SelectSeq(QUESTION_BANK, LAMBDA c : c.skill = skill)
        matching == SelectSeq(QUESTION_BANK, Matches)
    IN  QuestionsOf((IF matching = <<>> THEN Named(Skill_python) ELSE matching)
                        \o Named(Skill_general_technical)
                        \o Named(Skill_general_behavioral))

\* The script qs holds a question of the category skill of the bank
DrawnFrom(qs, skill) ==
    \E i \in DOMAIN qs : \E j \in DOMAIN BankGet(skill) :
        [qs[i] EXCEPT !.id = 0, !.context = <<>>] =
            [BankGet(skill)[j] EXCEPT !.id = 0, !.context = <<>>]

\* The middle entries of the script are the first entries of the pool, taken
\* cyclically
MiddleFromPool(qs, pool, n) ==
    \A i \in 0..(n - 3) :
        [qs[i + 2] EXCEPT !.id = 0, !.context = <<>>] =
            [pool[(i % Len(pool)) + 1] EXCEPT !.id = 0, !.context = <<>>]

\* C30: the source pool of get_fallback_questions is the questions of every
\* non-generic category whose key is a substring of the lowercased resume text
\* (the default category exactly when none matches), then the
\* generic-technical, then the generic-behavioral category; the middle entries
\* of the result are the first entries of that pool taken cyclically; so for
\* 'I used React and Docker' with N = 6 the result holds a question of the
\* react category and one of the docker category.
C30_PoolAndScenario ==
    fpc = "returned" =>
        /\ MiddlePool(resume_text) = StatedPool(resume_text)
        /\ MiddleFromPool(fallback, StatedPool(resume_text), fb_num_questions)
        /\ (resume_text = Text_react_docker /\ fb_num_questions = 6) =>
               /\ DrawnFrom(fallback, Skill_react)
               /\ DrawnFrom(fallback, Skill_docker)

(***************************************************************************)
(* Claims about the termination of run_genai_with_rotation, checked under  *)
(* SpecRotationFair                                                        *)
(***************************************************************************)
\* The call has returned a text or has raised an error
Terminated ==
    \/ (pc = "returned" /\ result # "")
    \/ (pc = "raised" /\ raised # NoError)

\* K credentials and M models: at most K uploads and K * M generation attempts
WithinBudget ==
    LET K == Len(keys)
        M == Len(IF custom_models # <<>> THEN custom_models ELSE CANDIDATE_MODELS)
    IN  /\ Len(uploads) <= K
        /\ Len(attempts) <= K * M

\* C31: provided every upload, generation and release call returns, every call
\* of run_genai_with_rotation with K credentials and M models terminates, by
\* returning a text or by failing, after at most K uploads and at most K * M
\* generation attempts.
C31_TerminatesWithinBudget == []WithinBudget /\ <>Terminated

\* A call that spent its whole budget and failed: every credential uploaded the
\* file and tried every model
C31_Witness ==
    /\ pc = "raised"
    /\ Len(keys) = MaxKeys
    /\ Len(uploads) = Len(keys)
    /\ Len(attempts) = Len(keys) * Len(models_to_try)

====
